---- MODULE Spec2Model ----
(***************************************************************************)
(* Model of the duplicate-detection and content-addressed archival core   *)
(* of lossless-vault (crates/core): confidence mapping, pairwise match,   *)
(* grouping, source-of-truth election, export-set selection, content      *)
(* paths, copy into the archive and cleanup against the manifest.         *)
(*                                                                         *)
(* Conventions                                                             *)
(*  - a u64 fingerprint is the set of its set bit positions (0..63);      *)
(*    xor is symmetric difference and count_ones is cardinality;           *)
(*  - a string is a sequence of one-character strings, a path is a         *)
(*    sequence of components (each a string in that sense);                *)
(*  - Option<T> is a record [some |-> FALSE] or [some |-> TRUE, val |-> v].*)
(*  - every operation has its own specification: Init draws the inputs,    *)
(*    the action applies the operation once and records what it returned;  *)
(*  - operations on the file system and the manifest store take one step   *)
(*    per call made on them, and each such call can fail.                  *)
(***************************************************************************)
EXTENDS Integers, Sequences, FiniteSets, TLC

VARIABLES
    pc,          \* "ready" before the operation ran, "done" / "panicked" after
    distance,    \* confidence_from_hamming: argument
    confidence,  \* confidence_from_hamming: returned Option<Confidence>
    pa,          \* match: first photo
    pb,          \* match: second photo
    outcome,     \* match: returned Option<Confidence>
    members,     \* elect_source_of_truth: the slice of group members
    elected,     \* elect_source_of_truth: what the call produced
    all_photos,  \* select_photos_to_export: the catalog's photos
    groups,      \* select_photos_to_export: the duplicate groups
    selected,    \* select_photos_to_export: returned photos
    pack_path,   \* root directory of the content-addressed archive
    archive,     \* files present under pack_path: [path, bytes]
    photo,       \* build_content_path: the record whose path is built
    target,      \* build_content_path: returned path
    dirs,        \* directories present on disk
    sources,     \* photo files present outside the archive: [path, bytes]
    writers,     \* copy_photo_to_pack: one call per writer, its position and result
    manifest,    \* the manifest store: rows [sha256, format], in the order listed
    desired,     \* cleanup_pack_files: the desired hashes
    cleaner,     \* cleanup_pack_files: position, locals and what it returned
    saver        \* the save pass: the export photo being copied, the copy results

vars == <<pc, distance, confidence, pa, pb, outcome, members, elected,
          all_photos, groups, selected, pack_path, archive, photo, target,
          dirs, sources, writers, manifest, desired, cleaner, saver>>

confidenceVars == <<distance, confidence>>
matchVars == <<pa, pb, outcome>>
electVars == <<members, elected>>
selectVars == <<all_photos, groups, selected>>
packVars == <<pack_path, archive, photo, target>>
copyVars == <<dirs, sources, writers>>
cleanupVars == <<manifest, desired, cleaner>>
saveVars == <<saver>>

(***************************************************************************)
(* Bounds of the model                                                     *)
(***************************************************************************)
\* fingerprints drawn for match are the prefixes 0..k-1, k <= MaxBits, and
\* the all-ones word, so every distance 0..MaxBits and HashBits-k occurs
MaxBits == 6
\* longest member list handed to elect_source_of_truth
MaxMembers == 3
\* catalog ids are 1..MaxPhotos; at most MaxGroups groups are handed over
MaxPhotos == 4
MaxGroups == 2
\* number of hex digits of a content hash (64 for a real SHA-256 digest)
HashLen == 3
\* rows in the manifest
MaxEntries == 2

(***************************************************************************)
(* domain.rs                                                               *)
(***************************************************************************)
None == [some |-> FALSE]
Some(v) == [some |-> TRUE, val |-> v]

\* enum Confidence, with its discriminants (derive(PartialOrd, Ord))
Low == 0
Probable == 1
High == 2
NearCertain == 3
Certain == 4
Confidence == {Low, Probable, High, NearCertain, Certain}

\* enum PhotoFormat
RawFormats == {"Cr2", "Cr3", "Nef", "Arw", "Orf", "Raf", "Rw2", "Dng"}
PhotoFormat == RawFormats \cup {"Tiff", "Png", "Jpeg", "Heic", "Webp"}

quality_tier(f) ==
    CASE f \in RawFormats -> 0
      [] f = "Tiff" -> 1
      [] f = "Png" -> 2
      [] f = "Jpeg" -> 3
      [] f = "Heic" -> 4
      [] f = "Webp" -> 5

supports_perceptual_hash(f) == f \in {"Jpeg", "Png", "Tiff", "Webp"}

(***************************************************************************)
(* hasher/perceptual.rs                                                    *)
(***************************************************************************)
\* width of a fingerprint (u64)
HashBits == 64
U64Bits == 0 .. (HashBits - 1)

\* an image that cannot be decoded; a readable image is known by the level
\* k of its picture, whose two hashes are the k low bits
Corrupt == -1
load_9x8_grayscale(file) == IF file.image = Corrupt THEN None ELSE Some(file.image)
compute_ahash(pixels) == 0 .. (pixels - 1)
compute_dhash(pixels) == 0 .. (pixels - 1)

\* mutant: a failed decode is hashed as an all-zero grid (unwrap_or_default)
compute_perceptual_hashes_default(file) ==
    LET pixels == load_9x8_grayscale(file)
        grid == IF pixels.some THEN pixels.val ELSE 0
    IN  Some([ahash |-> compute_ahash(grid), dhash |-> compute_dhash(grid)])

compute_perceptual_hashes(file) ==
    LET pixels == load_9x8_grayscale(file)
    IN  IF ~pixels.some THEN None
        ELSE Some([ahash |-> compute_ahash(pixels.val), dhash |-> compute_dhash(pixels.val)])

\* a ^ b on bit sets
xor(a, b) == (a \ b) \cup (b \ a)
count_ones(x) == Cardinality(x)

\* mutant: the bits set in either word are counted (| written for ^)
hamming_distance_or(a, b) == count_ones(a \cup b)

hamming_distance(a, b) == count_ones(xor(a, b))

(***************************************************************************)
(* matching/confidence.rs                                                  *)
(***************************************************************************)
PHASH_NEAR_CERTAIN_THRESHOLD == 2
PHASH_HIGH_THRESHOLD == 3
PHASH_PROBABLE_THRESHOLD == 5

\* mutant: the Probable band is one bit too wide (< 7 written for <= 5)
confidence_from_hamming_wide(d) ==
    IF d <= PHASH_NEAR_CERTAIN_THRESHOLD THEN Some(NearCertain)
    ELSE IF d <= PHASH_HIGH_THRESHOLD THEN Some(High)
    ELSE IF d <= PHASH_PROBABLE_THRESHOLD + 1 THEN Some(Probable)
    ELSE None

confidence_from_hamming(d) ==
    IF d <= PHASH_NEAR_CERTAIN_THRESHOLD THEN Some(NearCertain)
    ELSE IF d <= PHASH_HIGH_THRESHOLD THEN Some(High)
    ELSE IF d <= PHASH_PROBABLE_THRESHOLD THEN Some(Probable)
    ELSE None

\* mutant: takes the higher of the two (comparison reversed)
combine_confidence_max(a, b) == IF a > b THEN a ELSE b

combine_confidence(a, b) == IF a < b THEN a ELSE b

(***************************************************************************)
(* SimilarityMatcher (spec 4.2); the matcher's own source file is not part *)
(* of the tree, its steps are those of the specification and it calls the  *)
(* functions above.                                                        *)
(***************************************************************************)
has_fingerprints(p) == p.phash.some /\ p.dhash.some

\* mutant: perceptual comparison tried first, content hash only as fallback
match_perceptual_first(a, b) ==
    IF has_fingerprints(a) /\ has_fingerprints(b)
    THEN LET ca == confidence_from_hamming(hamming_distance(a.phash.val, b.phash.val))
             cd == confidence_from_hamming(hamming_distance(a.dhash.val, b.dhash.val))
         IN  IF ca.some /\ cd.some
             THEN Some(combine_confidence(ca.val, cd.val))
             ELSE None
    ELSE IF a.sha256 = b.sha256 THEN Some(Certain) ELSE None

\* mutant: a missing fingerprint is read as the all-zero word
match_missing_as_zero(a, b) ==
    IF a.sha256 = b.sha256 THEN Some(Certain)
    ELSE LET av(o) == IF o.some THEN o.val ELSE {}
             ca == confidence_from_hamming(hamming_distance(av(a.phash), av(b.phash)))
             cd == confidence_from_hamming(hamming_distance(av(a.dhash), av(b.dhash)))
         IN  IF ca.some /\ cd.some
             THEN Some(combine_confidence(ca.val, cd.val))
             ELSE None

match(a, b) ==
    IF a.sha256 = b.sha256 THEN Some(Certain)
    ELSE IF ~has_fingerprints(a) \/ ~has_fingerprints(b) THEN None
    ELSE LET ca == confidence_from_hamming(hamming_distance(a.phash.val, b.phash.val))
             cd == confidence_from_hamming(hamming_distance(a.dhash.val, b.dhash.val))
         IN  IF ca.some /\ cd.some
             THEN Some(combine_confidence(ca.val, cd.val))
             ELSE None

(***************************************************************************)
(* ranking.rs                                                              *)
(***************************************************************************)
\* std::cmp::Ordering
Less == -1
Equal == 0
Greater == 1

\* Ord::cmp on integers
cmp(x, y) == IF x < y THEN Less ELSE IF x > y THEN Greater ELSE Equal
\* Ordering::then
then(o, other) == IF o = Equal THEN other ELSE o

\* mutant: the size criterion compares a to b, so the smaller file wins
compare_size_ascending(a, b) ==
    then(then(cmp(quality_tier(a.format), quality_tier(b.format)),
              cmp(a.size, b.size)),
         cmp(a.mtime, b.mtime))

\* the closure given to min_by
compare(a, b) ==
    then(then(cmp(quality_tier(a.format), quality_tier(b.format)),
              cmp(b.size, a.size)),
         cmp(a.mtime, b.mtime))

\* Iterator::min_by: a left fold that replaces the running minimum only by a
\* strictly smaller element, so the first of several equal minima is kept
RECURSIVE min_by_from(_, _, _)
min_by_from(s, i, best) ==
    IF i > Len(s) THEN best
    ELSE min_by_from(s, i + 1, IF compare(best, s[i]) = Greater THEN s[i] ELSE best)

min_by(s) == IF Len(s) = 0 THEN None ELSE Some(min_by_from(s, 2, s[1]))

Panic(msg) == [status |-> "panic", message |-> msg]
Returned(p) == [status |-> "ok", photo |-> p]
Pending == [status |-> "pending"]

\* mutant: the emptiness check reports an error value instead of asserting
elect_source_of_truth_err(ms) ==
    IF Len(ms) = 0
    THEN [status |-> "err", message |-> "cannot elect from empty group"]
    ELSE Returned(min_by(ms).val)

elect_source_of_truth(ms) ==
    IF Len(ms) = 0
    THEN Panic("cannot elect from empty group")
    ELSE Returned(min_by(ms).val)

(***************************************************************************)
(* GroupBuilder (its code is outside the tree): a union-find over the      *)
(* indexes of the photos, two flat arrays parent and rank, the edges being *)
(* the pairs the matcher resolves, taken in index order                    *)
(***************************************************************************)
\* a set of indexes in ascending order
RECURSIVE Sorted(_)
Sorted(S) ==
    IF S = {} THEN <<>>
    ELSE LET lo == CHOOSE x \in S : \A y \in S : x <= y
         IN  <<lo>> \o Sorted(S \ {lo})

\* the pairs i < j of 1..n: (1,2), (1,3), ..., (n-1,n)
RECURSIVE pairs_from(_, _, _)
pairs_from(n, i, j) ==
    IF i >= n THEN <<>>
    ELSE IF j > n THEN pairs_from(n, i + 1, i + 2)
    ELSE <<[a |-> i, b |-> j]>> \o pairs_from(n, i, j + 1)

\* the similarity graph: an edge, with its confidence, for every pair for
\* which match returns Some
edges(photos) ==
    LET all == pairs_from(Len(photos), 1, 2)
        resolved == [k \in 1 .. Len(all) |->
                        [a |-> all[k].a, b |-> all[k].b,
                         confidence |-> match(photos[all[k].a], photos[all[k].b])]]
        matched(e) == e.confidence.some
    IN  SelectSeq(resolved, matched)

RECURSIVE find(_, _)
find(parent, x) == IF parent[x] = x THEN x ELSE find(parent, parent[x])

\* mutant: the edge's end points are linked, not the roots of their sets
union_ends(uf, e) ==
    LET ra == find(uf.parent, e.a)
        rb == find(uf.parent, e.b)
    IN  IF ra = rb THEN uf
        ELSE [uf EXCEPT !.parent[e.a] = e.b,
                        !.confidence[rb] =
                            combine_confidence(combine_confidence(uf.confidence[ra],
                                                                  uf.confidence[rb]),
                                               e.confidence.val)]

\* union by rank; the set's confidence is the lowest of the two sets' and
\* the edge's, and an edge inside one set is not used
union(uf, e) ==
    LET ra == find(uf.parent, e.a)
        rb == find(uf.parent, e.b)
        hi == IF uf.rank[ra] < uf.rank[rb] THEN rb ELSE ra
        lo == IF hi = ra THEN rb ELSE ra
    IN  IF ra = rb THEN uf
        ELSE [parent |-> [uf.parent EXCEPT ![lo] = hi],
              rank |-> IF uf.rank[ra] = uf.rank[rb]
                       THEN [uf.rank EXCEPT ![hi] = @ + 1]
                       ELSE uf.rank,
              confidence |-> [uf.confidence EXCEPT ![hi] =
                                combine_confidence(combine_confidence(uf.confidence[ra],
                                                                      uf.confidence[rb]),
                                                   e.confidence.val)]]

RECURSIVE union_all(_, _, _)
union_all(uf, es, k) ==
    IF k > Len(es) THEN uf ELSE union_all(union(uf, es[k]), es, k + 1)

\* the components of two members or more after the unions over es, in
\* ascending order of their smallest member, each with its elected source
\* of truth
emit(photos, es) ==
    LET n == Len(photos)
        uf == union_all([parent |-> [i \in 1 .. n |-> i],
                         rank |-> [i \in 1 .. n |-> 0],
                         confidence |-> [i \in 1 .. n |-> Certain]],
                        es, 1)
        component(i) == {j \in 1 .. n : find(uf.parent, j) = find(uf.parent, i)}
        firsts == {i \in 1 .. n : Cardinality(component(i)) >= 2
                                  /\ \A j \in component(i) : i <= j}
        order == Sorted(firsts)
        members_of(i) == LET ix == Sorted(component(i))
                         IN  [k \in 1 .. Len(ix) |-> photos[ix[k]]]
    IN  [g \in 1 .. Len(order) |->
            [id |-> g,
             members |-> members_of(order[g]),
             source_of_truth_id |-> elect_source_of_truth(members_of(order[g])).photo.id,
             confidence |-> uf.confidence[find(uf.parent, order[g])]]]

\* build(photos): all pairs are handed to the matcher
build(photos) == emit(photos, edges(photos))

\* The bucketed builder of the performance note of spec 4.3.  The hash
\* index links every photo to the first photo of the same content hash; the
\* perceptual comparison is run on the pairs of unequal hash whose formats
\* are compatible, that is, both declare perceptual-hash support.
\* mutant: compatible read as 'of the same format'
format_compatible_same(f, g) == f = g

format_compatible(f, g) == supports_perceptual_hash(f) /\ supports_perceptual_hash(g)

exact_edges(photos) ==
    LET n == Len(photos)
        first(j) == CHOOSE i \in 1 .. j :
                        /\ photos[i].sha256 = photos[j].sha256
                        /\ \A k \in 1 .. j : photos[k].sha256 = photos[j].sha256 => i <= k
        all == [j \in 1 .. n |-> [a |-> first(j), b |-> j, confidence |-> Some(Certain)]]
        later(e) == e.a # e.b
    IN  SelectSeq(all, later)

perceptual_edges(photos) ==
    LET all == pairs_from(Len(photos), 1, 2)
        compared(p) == /\ photos[p.a].sha256 # photos[p.b].sha256
                       /\ format_compatible(photos[p.a].format, photos[p.b].format)
        bucket == SelectSeq(all, compared)
        resolved == [k \in 1 .. Len(bucket) |->
                        [a |-> bucket[k].a, b |-> bucket[k].b,
                         confidence |-> match(photos[bucket[k].a], photos[bucket[k].b])]]
        matched(e) == e.confidence.some
    IN  SelectSeq(resolved, matched)

build_bucketed(photos) == emit(photos, exact_edges(photos) \o perceptual_edges(photos))

(***************************************************************************)
(* vault_save.rs                                                           *)
(***************************************************************************)
\* PhotoFormat::extension, the file extension written into the archive; the
\* method is called by build_content_path, its body is outside the tree
extension(f) ==
    CASE f = "Cr2" -> <<"c", "r", "2">>
      [] f = "Cr3" -> <<"c", "r", "3">>
      [] f = "Nef" -> <<"n", "e", "f">>
      [] f = "Arw" -> <<"a", "r", "w">>
      [] f = "Orf" -> <<"o", "r", "f">>
      [] f = "Raf" -> <<"r", "a", "f">>
      [] f = "Rw2" -> <<"r", "w", "2">>
      [] f = "Dng" -> <<"d", "n", "g">>
      [] f = "Tiff" -> <<"t", "i", "f", "f">>
      [] f = "Png" -> <<"p", "n", "g">>
      [] f = "Jpeg" -> <<"j", "p", "g">>
      [] f = "Heic" -> <<"h", "e", "i", "c">>
      [] f = "Webp" -> <<"w", "e", "b", "p">>

\* Path::join with a relative, single-component argument
join(path, component) == Append(path, component)
\* Path::exists on the archive
exists(path) == \E file \in archive : file.path = path
\* Path::parent
Parent(path) == SubSeq(path, 1, Len(path) - 1)
\* a directory and the directories above it
Ancestors(path) == {SubSeq(path, 1, k) : k \in 1 .. Len(path)}
\* the file at a path
file_at(files, path) == CHOOSE file \in files : file.path = path
\* mutant: the target is opened for appending, not truncated
write_append(files, path, bytes) ==
    {file \in files : file.path # path} \cup
    {[path |-> path,
      bytes |-> IF \E file \in files : file.path = path
                THEN file_at(files, path).bytes \o bytes ELSE bytes]}

write(files, path, bytes) ==
    {file \in files : file.path # path} \cup {[path |-> path, bytes |-> bytes]}
\* the proper prefixes of a file's bytes, what an interrupted copy leaves
Partial(bytes) == {SubSeq(bytes, 1, k) : k \in 0 .. (Len(bytes) - 1)}

\* PhotoFormat::as_str, the format string stored in the manifest
\* mutant: the WebP tag is written in capitals
as_str_upper(f) ==
    CASE f = "Cr2" -> <<"C", "R", "2">>
      [] f = "Cr3" -> <<"C", "R", "3">>
      [] f = "Nef" -> <<"N", "E", "F">>
      [] f = "Arw" -> <<"A", "R", "W">>
      [] f = "Orf" -> <<"O", "R", "F">>
      [] f = "Raf" -> <<"R", "A", "F">>
      [] f = "Rw2" -> <<"R", "W", "2">>
      [] f = "Dng" -> <<"D", "N", "G">>
      [] f = "Tiff" -> <<"T", "I", "F", "F">>
      [] f = "Png" -> <<"P", "N", "G">>
      [] f = "Jpeg" -> <<"J", "P", "E", "G">>
      [] f = "Heic" -> <<"H", "E", "I", "C">>
      [] f = "Webp" -> <<"W", "E", "B", "P">>

as_str(f) ==
    CASE f = "Cr2" -> <<"C", "R", "2">>
      [] f = "Cr3" -> <<"C", "R", "3">>
      [] f = "Nef" -> <<"N", "E", "F">>
      [] f = "Arw" -> <<"A", "R", "W">>
      [] f = "Orf" -> <<"O", "R", "F">>
      [] f = "Raf" -> <<"R", "A", "F">>
      [] f = "Rw2" -> <<"R", "W", "2">>
      [] f = "Dng" -> <<"D", "N", "G">>
      [] f = "Tiff" -> <<"T", "I", "F", "F">>
      [] f = "Png" -> <<"P", "N", "G">>
      [] f = "Jpeg" -> <<"J", "P", "E", "G">>
      [] f = "Heic" -> <<"H", "E", "I", "C">>
      [] f = "Webp" -> <<"W", "e", "b", "P">>

format_str_to_extension(format_str) ==
    CASE format_str = <<"C", "R", "2">> -> <<"c", "r", "2">>
      [] format_str = <<"C", "R", "3">> -> <<"c", "r", "3">>
      [] format_str = <<"N", "E", "F">> -> <<"n", "e", "f">>
      [] format_str = <<"A", "R", "W">> -> <<"a", "r", "w">>
      [] format_str = <<"O", "R", "F">> -> <<"o", "r", "f">>
      [] format_str = <<"R", "A", "F">> -> <<"r", "a", "f">>
      [] format_str = <<"R", "W", "2">> -> <<"r", "w", "2">>
      [] format_str = <<"D", "N", "G">> -> <<"d", "n", "g">>
      [] format_str = <<"T", "I", "F", "F">> -> <<"t", "i", "f", "f">>
      [] format_str = <<"P", "N", "G">> -> <<"p", "n", "g">>
      [] format_str = <<"J", "P", "E", "G">> -> <<"j", "p", "g">>
      [] format_str = <<"H", "E", "I", "C">> -> <<"h", "e", "i", "c">>
      [] format_str = <<"W", "e", "b", "P">> -> <<"w", "e", "b", "p">>
      [] OTHER -> format_str

\* the path cleanup_pack_files rebuilds from a manifest row
file_path(root, sha256, format_str) ==
    LET ext == format_str_to_extension(format_str)
        prefix == SubSeq(sha256, 1, 2)
    IN  join(join(root, prefix), sha256 \o <<".">> \o ext)

\* Manifest::list_entries and Manifest::remove on a store that answers
list_entries(rows) == rows
remove(rows, sha256) == LET keep(row) == row.sha256 # sha256 IN SelectSeq(rows, keep)
\* Manifest::insert: the row of a hash is added, or rewritten in place
insert(rows, sha256, format_str) ==
    IF \E i \in 1 .. Len(rows) : rows[i].sha256 = sha256
    THEN [i \in 1 .. Len(rows) |->
            IF rows[i].sha256 = sha256
            THEN [sha256 |-> sha256, format |-> format_str] ELSE rows[i]]
    ELSE Append(rows, [sha256 |-> sha256, format |-> format_str])
Hashes(rows) == {rows[i].sha256 : i \in 1 .. Len(rows)}

\* Result<T>
Ok(v) == [status |-> "ok", val |-> v]
Err(e) == [status |-> "err", error |-> e]

\* mutant: collision handling as for export paths, a suffix is added when a
\* file is already there
build_content_path_collision(root, sha, f) ==
    LET prefix == SubSeq(sha, 1, 2)
        plain == join(join(root, prefix), sha \o <<".">> \o extension(f))
    IN  IF exists(plain)
        THEN join(join(root, prefix), sha \o <<"_", "1", ".">> \o extension(f))
        ELSE plain

build_content_path(root, sha, f) ==
    LET prefix == SubSeq(sha, 1, 2)
    IN  join(join(root, prefix), sha \o <<".">> \o extension(f))

\* ids of a sequence of photos
Ids(photos) == {photos[i].id : i \in 1 .. Len(photos)}

\* mutant: the two id sets are tested with &&, ungrouped photos are dropped
select_photos_to_export_and(photos, gs) ==
    LET grouped_ids == UNION {Ids(gs[i].members) : i \in 1 .. Len(gs)}
        sot_ids == {gs[i].source_of_truth_id : i \in 1 .. Len(gs)}
        keep(p) == p.id \in grouped_ids /\ p.id \in sot_ids
    IN  SelectSeq(photos, keep)

\* mutant: every photo is exported
select_photos_to_export_all(photos, gs) == photos

\* mutant: the test on the source-of-truth ids is negated
select_photos_to_export_not(photos, gs) ==
    LET grouped_ids == UNION {Ids(gs[i].members) : i \in 1 .. Len(gs)}
        sot_ids == {gs[i].source_of_truth_id : i \in 1 .. Len(gs)}
        keep(p) == IF p.id \in grouped_ids THEN p.id \notin sot_ids ELSE TRUE
    IN  SelectSeq(photos, keep)

select_photos_to_export(photos, gs) ==
    LET grouped_ids == UNION {Ids(gs[i].members) : i \in 1 .. Len(gs)}
        sot_ids == {gs[i].source_of_truth_id : i \in 1 .. Len(gs)}
        keep(p) == IF p.id \in grouped_ids THEN p.id \in sot_ids ELSE TRUE
    IN  SelectSeq(photos, keep)

(***************************************************************************)
(* Inputs                                                                  *)
(***************************************************************************)
\* fingerprints: 0, 1, 11, 111, ... and u64::MAX
Fingerprints == {0 .. (k - 1) : k \in 0 .. MaxBits} \cup {U64Bits}

\* 64-bit words handed to hamming_distance: runs of low bits, single bits,
\* runs of high bits, and the complement of each
WordShapes ==
    {0 .. (k - 1) : k \in 0 .. MaxBits}
        \cup {{k} : k \in 0 .. (MaxBits - 1)}
        \cup {(HashBits - k) .. (HashBits - 1) : k \in 1 .. MaxBits}
Words == WordShapes \cup {U64Bits \ w : w \in WordShapes}
\* two contents (hex digests, shortened)
MatchDigests == {<<"a", "3", "b">>, <<"a", "3", "c">>}

\* a photo as the matcher sees it; fingerprints are attached together, and
\* only to a format that supports perceptual hashing
MatchPhotos ==
    {[sha256 |-> h, format |-> f, phash |-> None, dhash |-> None] :
        h \in MatchDigests, f \in {"Cr2", "Jpeg"}}
    \cup
    {[sha256 |-> h, format |-> "Jpeg", phash |-> Some(x), dhash |-> Some(y)] :
        h \in MatchDigests, x \in Fingerprints, y \in Fingerprints}

NoPhoto == [sha256 |-> <<>>, format |-> "Jpeg", phash |-> None, dhash |-> None]
Hashed(x) == [NoPhoto EXCEPT !.phash = Some(x), !.dhash = Some(x)]

\* group members as the elector sees them: two RAW formats of the same tier,
\* a lossless and a lossy one, file sizes in MB and mtimes as in the unit
\* tests; the member at position i has catalog id i
ElectFormats == {"Cr2", "Nef", "Png", "Jpeg"}
ElectSizes == {3, 5, 20}
ElectMtimes == {1000, 2000}
ElectAttributes == [format : ElectFormats, size : ElectSizes, mtime : ElectMtimes]
MemberLists(n) ==
    {[i \in 1 .. n |-> [id |-> i, format |-> a[i].format,
                        size |-> a[i].size, mtime |-> a[i].mtime]] :
        a \in [1 .. n -> ElectAttributes]}

\* the photos of ids S, in ascending order of id
RECURSIVE Ascending(_)
Ascending(S) ==
    IF S = {} THEN <<>>
    ELSE LET lo == CHOOSE x \in S : \A y \in S : x <= y
         IN  <<[id |-> lo]>> \o Ascending(S \ {lo})

PhotoIds == 1 .. MaxPhotos
\* the whole catalog, or the catalog without its first photo
Catalogs == {Ascending(PhotoIds), Ascending(PhotoIds \ {1})}

\* a group id that is different for different (members, source of truth)
RECURSIVE Mask(_)
Mask(S) == IF S = {} THEN 0 ELSE LET x == CHOOSE y \in S : TRUE
                                 IN  2 ^ x + Mask(S \ {x})
\* any group of two or three members with any source_of_truth_id, also one
\* that is not a member and one that is a member of another group
Groups ==
    {[id |-> Mask(S) * (MaxPhotos + 1) + t,
      members |-> Ascending(S), source_of_truth_id |-> t] :
        S \in {T \in SUBSET PhotoIds : Cardinality(T) \in {2, 3}}, t \in PhotoIds}
\* group lists are in ascending order of group id
GroupLists(n) ==
    {gs \in [1 .. n -> Groups] : \A i \in 1 .. (n - 1) : gs[i].id < gs[i + 1].id}

\* content hashes: every HashLen-digit word over two hex digits
Digests == [1 .. HashLen -> {"a", "3"}]
Roots == {<<"pack">>, <<"mnt", "vault">>}
\* catalog records of files: where the file was found, its content hash and
\* the format recorded for it
PackPhotos ==
    {[path |-> <<"photos", n>>, sha256 |-> h, format |-> f] :
        n \in {"x", "y"}, h \in Digests, f \in PhotoFormat}
\* the archive is empty or holds one JPEG
Archives(root) ==
    {{}} \cup
    {{[path |-> root \o <<SubSeq(h, 1, 2), h \o <<".", "j", "p", "g">> >>,
       bytes |-> h]} : h \in Digests}
NoRecord == [path |-> <<>>, sha256 |-> <<>>, format |-> "Jpeg"]

\* the callers of copy_photo_to_pack
Writers == {"w1", "w2"}
IdleWriter == [pc |-> "idle", source |-> <<>>, target |-> <<>>, result |-> Pending]
Calling(src, tgt) == [pc |-> "exists", source |-> src, target |-> tgt, result |-> Pending]
\* two contents whose digests share the two-character prefix
CopyDigests ==
    {[i \in 1 .. HashLen |-> "a"],
     [i \in 1 .. HashLen |-> IF i = HashLen THEN "3" ELSE "a"]}
CopyFormats == {"Jpeg", "Cr2"}
SourceFile(n, h) == [path |-> <<"photos", n>>, bytes |-> h]
\* the directories on disk: a chain from the root down to some depth
DirChains(path) == {Ancestors(SubSeq(path, 1, k)) : k \in 0 .. Len(path)}

\* observations handed to the GroupBuilder: one of two contents, no
\* fingerprints or both fingerprints at one of three levels; two levels
\* apart are at distance 3 or 6 on both channels
GroupLevels == {0, 3, 6}
GroupFingerprints == {None} \cup {Some(0 .. (k - 1)) : k \in GroupLevels}
GroupDigests == {<<"a", "3", "b">>, <<"a", "3", "c">>}
Observed(i, h, fp) ==
    [id |-> i, sha256 |-> h, format |-> "Jpeg", size |-> i, mtime |-> 1000,
     phash |-> fp, dhash |-> fp]
Observations(n) ==
    {[i \in 1 .. n |-> Observed(i, hs[i], fps[i])] :
        hs \in [1 .. n -> GroupDigests], fps \in [1 .. n -> GroupFingerprints]}

\* observations of pairwise different contents whose fingerprints are two
\* bits apart from one level to the next: distance 2 is NearCertain and
\* distance 4 is Probable
ChainLevels == {0, 2, 4}
ChainDigest(i) == <<"a", "3", <<"d", "e", "f", "g", "h", "i">>[i]>>
Chains(n) ==
    {[i \in 1 .. n |-> Observed(i, ChainDigest(i), Some(0 .. (fps[i] - 1)))] :
        fps \in [1 .. n -> ChainLevels]}

\* observation sets as the hashing pipeline leaves them: a photo is one of
\* four contents under one of three formats; the content fixes the content
\* hash and the picture, and the fingerprints are those of the picture when
\* the format declares perceptual-hash support, absent otherwise
MaxScan == 3
ScanContents == {[sha256 |-> <<"a", "3", "d">>, level |-> 0],
                 [sha256 |-> <<"a", "3", "e">>, level |-> 2],
                 [sha256 |-> <<"a", "3", "g">>, level |-> 4],
                 [sha256 |-> <<"a", "3", "f">>, level |-> 6]}
ScanFormats == {"Jpeg", "Png", "Cr2"}
Filed(i, c, f) ==
    LET fp == IF supports_perceptual_hash(f) THEN Some(0 .. (c.level - 1)) ELSE None
    IN  [id |-> i, sha256 |-> c.sha256, format |-> f, size |-> i, mtime |-> 1000,
         phash |-> fp, dhash |-> fp]
Scans(n) ==
    {[i \in 1 .. n |-> Filed(i, cs[i], fs[i])] :
        cs \in [1 .. n -> ScanContents], fs \in [1 .. n -> ScanFormats]}

\* cleanup_pack_files is run this many times in a row
Passes == 2
IdleCleaner ==
    [pc |-> "idle", pass |-> 0, entries |-> <<>>, i |-> 0, removed |-> <<>>,
     returned |-> None, failed |-> {}, archive0 |-> {}, manifest0 |-> <<>>,
     earlier |-> <<>>]
\* three contents, two of them under the same two-character prefix
CleanupDigests ==
    {[i \in 1 .. HashLen |-> "a"],
     [i \in 1 .. HashLen |-> IF i = HashLen THEN "3" ELSE "a"],
     [i \in 1 .. HashLen |-> IF i = 1 THEN "3" ELSE "a"]}
\* the format each content was recorded with
FormatOf(h) == IF h[HashLen] = "3" THEN "Cr2" ELSE "Jpeg"
Row(h) == [sha256 |-> h, format |-> as_str(FormatOf(h))]
StoredFile(root, h) == [path |-> build_content_path(root, h, FormatOf(h)), bytes |-> h]
\* the manifests of n rows, no hash twice, in every order
Manifests(n) ==
    {rows \in [1 .. n -> {Row(h) : h \in CleanupDigests}] :
        \A i, j \in 1 .. n : i # j => rows[i] # rows[j]}
\* the directories that hold a set of files
DirsOf(files) == UNION {Ancestors(Parent(file.path)) : file \in files}

\* the files of a scanned source: a JPEG of 5 MB, a CR2 of 20 MB showing the
\* same picture, and a second JPEG showing that picture or another one; a
\* picture is known by the level of its fingerprints
SizeOf(h) == IF FormatOf(h) = "Cr2" THEN 20 ELSE 5
Pictures(h) == IF h[1] = "3" THEN {0, 6} ELSE {0}
PhotoNames == <<"x", "y">>
Scanned(i, h, t) ==
    [id |-> i, path |-> <<"photos", PhotoNames[i]>>, sha256 |-> h,
     format |-> FormatOf(h), size |-> SizeOf(h), mtime |-> t,
     phash |-> None, dhash |-> None]
OnDisk(i, h, picture) ==
    [path |-> <<"photos", PhotoNames[i]>>, bytes |-> h, image |-> picture]

IdleConfidence == distance = 0 /\ confidence = None
IdleMatch == pa = NoPhoto /\ pb = NoPhoto /\ outcome = None
IdleElect == members = <<>> /\ elected = Pending
IdleSelect == all_photos = <<>> /\ groups = <<>> /\ selected = <<>>
IdlePack == pack_path = <<>> /\ archive = {} /\ photo = NoRecord /\ target = <<>>
IdleSaver == [k |-> 0, busy |-> FALSE, results |-> <<>>, archive0 |-> {}]
IdleSave == saver = IdleSaver
IdleCleanup == manifest = <<>> /\ desired = {} /\ cleaner = IdleCleaner
IdleCopy == dirs = {} /\ sources = {} /\ writers = [w \in Writers |-> IdleWriter]

(***************************************************************************)
(* confidence_from_hamming applied to every distance two u64 can have      *)
(***************************************************************************)
InitConfidence ==
    /\ pc = "ready"
    /\ IdleSave
    /\ IdleCleanup
    /\ IdleCopy
    /\ distance \in 0 .. HashBits
    /\ confidence = None
    /\ IdleMatch
    /\ IdleElect
    /\ IdleSelect
    /\ IdlePack

ConfidenceFromHamming ==
    /\ pc = "ready"
    /\ confidence' = confidence_from_hamming(distance)
    /\ pc' = "done"
    /\ UNCHANGED <<distance, matchVars, electVars, selectVars, packVars, copyVars, cleanupVars, saveVars>>

NextConfidence == ConfidenceFromHamming

SpecConfidence == InitConfidence /\ [][NextConfidence]_vars

(***************************************************************************)
(* hamming_distance applied to every pair of words                         *)
(***************************************************************************)
InitHamming ==
    /\ pc = "ready"
    /\ IdleSave
    /\ IdleCleanup
    /\ IdleCopy
    /\ \E a \in Words, b \in Words : pa = Hashed(a) /\ pb = Hashed(b)
    /\ outcome = None
    /\ IdleConfidence
    /\ IdleElect
    /\ IdleSelect
    /\ IdlePack

HammingDistance ==
    /\ pc = "ready"
    /\ distance' = hamming_distance(pa.phash.val, pb.phash.val)
    /\ pc' = "done"
    /\ UNCHANGED <<confidence, matchVars, electVars, selectVars, packVars, copyVars, cleanupVars, saveVars>>

NextHamming == HammingDistance

SpecHamming == InitHamming /\ [][NextHamming]_vars

(***************************************************************************)
(* match applied to every pair of photos                                   *)
(***************************************************************************)
InitMatch ==
    /\ pc = "ready"
    /\ IdleSave
    /\ IdleCleanup
    /\ IdleCopy
    /\ pa \in MatchPhotos
    /\ pb \in MatchPhotos
    /\ outcome = None
    /\ IdleConfidence
    /\ IdleElect
    /\ IdleSelect
    /\ IdlePack

Match ==
    /\ pc = "ready"
    /\ outcome' = match(pa, pb)
    /\ pc' = "done"
    /\ UNCHANGED <<pa, pb, confidenceVars, electVars, selectVars, packVars, copyVars, cleanupVars, saveVars>>

NextMatch == Match

SpecMatch == InitMatch /\ [][NextMatch]_vars

(***************************************************************************)
(* elect_source_of_truth applied to every member list, the empty one       *)
(* included                                                                *)
(***************************************************************************)
InitElect ==
    /\ pc = "ready"
    /\ IdleSave
    /\ IdleCleanup
    /\ IdleCopy
    /\ \E n \in 0 .. MaxMembers : members \in MemberLists(n)
    /\ elected = Pending
    /\ IdleConfidence
    /\ IdleMatch
    /\ IdleSelect
    /\ IdlePack

Elect ==
    /\ pc = "ready"
    /\ elected' = elect_source_of_truth(members)
    /\ pc' = IF elected'.status = "panic" THEN "panicked" ELSE "done"
    /\ UNCHANGED <<members, confidenceVars, matchVars, selectVars, packVars, copyVars, cleanupVars, saveVars>>

NextElect == Elect

SpecElect == InitElect /\ [][NextElect]_vars

(***************************************************************************)
(* select_photos_to_export applied to every catalog and group list         *)
(***************************************************************************)
InitSelect ==
    /\ pc = "ready"
    /\ IdleSave
    /\ IdleCleanup
    /\ IdleCopy
    /\ all_photos \in Catalogs
    /\ \E n \in 0 .. MaxGroups : groups \in GroupLists(n)
    /\ selected = <<>>
    /\ IdleConfidence
    /\ IdleMatch
    /\ IdleElect
    /\ IdlePack

SelectPhotosToExport ==
    /\ pc = "ready"
    /\ selected' = select_photos_to_export(all_photos, groups)
    /\ pc' = "done"
    /\ UNCHANGED <<all_photos, groups, confidenceVars, matchVars, electVars, packVars, copyVars, cleanupVars, saveVars>>

NextSelect == SelectPhotosToExport

SpecSelect == InitSelect /\ [][NextSelect]_vars

(***************************************************************************)
(* build_content_path applied to every record, under every root and with   *)
(* an empty and a non-empty archive                                        *)
(***************************************************************************)
InitContentPath ==
    /\ pc = "ready"
    /\ IdleSave
    /\ IdleCleanup
    /\ IdleCopy
    /\ pack_path \in Roots
    /\ archive \in Archives(pack_path)
    /\ photo \in PackPhotos
    /\ target = <<>>
    /\ IdleConfidence
    /\ IdleMatch
    /\ IdleElect
    /\ IdleSelect

BuildContentPath ==
    /\ pc = "ready"
    /\ target' = build_content_path(pack_path, photo.sha256, photo.format)
    /\ pc' = "done"
    /\ UNCHANGED <<pack_path, archive, photo, confidenceVars, matchVars, electVars, selectVars, copyVars, cleanupVars, saveVars>>

NextContentPath == BuildContentPath

SpecContentPath == InitContentPath /\ [][NextContentPath]_vars

(***************************************************************************)
(* GroupBuilder applied to every observation set of up to MaxPhotos photos *)
(***************************************************************************)
InitGroup ==
    /\ pc = "ready"
    /\ IdleSave
    /\ \E n \in 0 .. MaxPhotos : all_photos \in Observations(n) \cup Chains(n)
    /\ groups = <<>>
    /\ selected = <<>>
    /\ IdleConfidence
    /\ IdleMatch
    /\ IdleElect
    /\ IdlePack
    /\ IdleCopy
    /\ IdleCleanup

BuildGroups ==
    /\ pc = "ready"
    /\ groups' = build(all_photos)
    /\ pc' = "done"
    /\ UNCHANGED <<all_photos, selected, confidenceVars, matchVars, electVars, packVars, copyVars, cleanupVars, saveVars>>

NextGroup == BuildGroups

SpecGroup == InitGroup /\ [][NextGroup]_vars

(***************************************************************************)
(* The bucketed GroupBuilder applied to every scan of up to MaxScan photos *)
(***************************************************************************)
InitBucket ==
    /\ pc = "ready"
    /\ IdleSave
    /\ \E n \in 0 .. MaxScan : all_photos \in Scans(n)
    /\ groups = <<>>
    /\ selected = <<>>
    /\ IdleConfidence
    /\ IdleMatch
    /\ IdleElect
    /\ IdlePack
    /\ IdleCopy
    /\ IdleCleanup

BuildBucketed ==
    /\ pc = "ready"
    /\ groups' = build_bucketed(all_photos)
    /\ pc' = "done"
    /\ UNCHANGED <<all_photos, selected, confidenceVars, matchVars, electVars, packVars, copyVars, cleanupVars, saveVars>>

NextBucket == BuildBucketed

SpecBucket == InitBucket /\ [][NextBucket]_vars

(***************************************************************************)
(* copy_photo_to_pack, one step per file-system call.  fs::copy opens the  *)
(* source, creates or truncates the target and then fills it; every call   *)
(* on the file system can fail.                                            *)
(***************************************************************************)
Finish(w, r) == writers' = [writers EXCEPT ![w] = [@ EXCEPT !.pc = "done", !.result = r]]
Goto(w, label) == writers' = [writers EXCEPT ![w] = [@ EXCEPT !.pc = label]]

\* what no step of the call touches
CopyFrame ==
    UNCHANGED <<pc, pack_path, photo, target, sources,
                confidenceVars, matchVars, electVars, selectVars, cleanupVars, saveVars>>

\* mutant: the target is written whether or not it is there
CheckExists_overwrite(w) ==
    /\ writers[w].pc = "exists"
    /\ Goto(w, "mkdir")
    /\ UNCHANGED <<archive, dirs>>
    /\ CopyFrame

\* if target.exists() { return Ok(false); }
CheckExists(w) ==
    /\ writers[w].pc = "exists"
    /\ IF exists(writers[w].target)
       THEN Finish(w, Ok(FALSE))
       ELSE Goto(w, "mkdir")
    /\ UNCHANGED <<archive, dirs>>
    /\ CopyFrame

\* fs::create_dir_all(parent)?
CreateDirAll(w) ==
    /\ writers[w].pc = "mkdir"
    /\ LET parent == Parent(writers[w].target)
       IN  \/ /\ dirs' = dirs \cup Ancestors(parent)
              /\ Goto(w, "open")
           \/ /\ \E made \in DirChains(Parent(parent)) : dirs' = dirs \cup made
              /\ Finish(w, Err("create_dir_all"))
    /\ UNCHANGED archive
    /\ CopyFrame

\* fs::copy(source, target)?, until the target is created or truncated
CopyOpen(w) ==
    /\ writers[w].pc = "open"
    /\ LET src == writers[w].source
           tgt == writers[w].target
       IN  \/ /\ \E file \in sources : file.path = src
              /\ Parent(tgt) \in dirs
              /\ archive' = write(archive, tgt, <<>>)
              /\ Goto(w, "write")
           \/ /\ Finish(w, Err("copy"))
              /\ UNCHANGED archive
    /\ UNCHANGED dirs
    /\ CopyFrame

\* fs::copy(source, target)?, the bytes; then Ok(true)
CopyWrite(w) ==
    /\ writers[w].pc = "write"
    /\ LET bytes == file_at(sources, writers[w].source).bytes
           tgt == writers[w].target
       IN  \/ /\ archive' = write(archive, tgt, bytes)
              /\ Finish(w, Ok(TRUE))
           \/ /\ \E part \in Partial(bytes) : archive' = write(archive, tgt, part)
              /\ Finish(w, Err("copy"))
    /\ UNCHANGED dirs
    /\ CopyFrame

CopyPhotoToPack(w) ==
    \/ CheckExists(w)
    \/ CreateDirAll(w)
    \/ CopyOpen(w)
    \/ CopyWrite(w)

NextCopy == \E w \in Writers : CopyPhotoToPack(w)

\* one call: any content, source there or not, target there (with these
\* or with other bytes) or not
InitCopy ==
    /\ pc = "ready"
    /\ IdleSave
    /\ IdleCleanup
    /\ pack_path \in Roots
    /\ photo = NoRecord
    /\ target = <<>>
    /\ \E h \in CopyDigests, f \in CopyFormats :
         LET tgt == build_content_path(pack_path, h, f)
         IN  /\ sources \in {{}, {SourceFile("x", h)}}
             /\ \/ /\ archive = {}
                   /\ dirs \in DirChains(Parent(tgt))
                \/ /\ \E g \in CopyDigests : archive = {[path |-> tgt, bytes |-> g]}
                   /\ dirs = Ancestors(Parent(tgt))
             /\ writers = [w \in Writers |->
                             IF w = "w1" THEN Calling(<<"photos", "x">>, tgt) ELSE IdleWriter]
    /\ IdleConfidence
    /\ IdleMatch
    /\ IdleElect
    /\ IdleSelect

SpecCopy == InitCopy /\ [][NextCopy]_vars

\* two calls on the target of one content, from two files with these bytes
InitRace ==
    /\ pc = "ready"
    /\ IdleSave
    /\ IdleCleanup
    /\ pack_path \in Roots
    /\ photo = NoRecord
    /\ target = <<>>
    /\ \E h \in CopyDigests, f \in CopyFormats :
         LET tgt == build_content_path(pack_path, h, f)
         IN  /\ sources = {SourceFile("x", h), SourceFile("y", h)}
             /\ \/ /\ archive = {}
                   /\ dirs \in DirChains(Parent(tgt))
                \/ /\ archive = {[path |-> tgt, bytes |-> h]}
                   /\ dirs = Ancestors(Parent(tgt))
             /\ writers = [w \in Writers |->
                             Calling(<<"photos", IF w = "w1" THEN "x" ELSE "y">>, tgt)]
    /\ IdleConfidence
    /\ IdleMatch
    /\ IdleElect
    /\ IdleSelect

SpecRace == InitRace /\ [][NextCopy]_vars

(***************************************************************************)
(* copy_photo_to_pack called for a photo, and called again for the same    *)
(* photo once the first call has returned                                  *)
(***************************************************************************)
InitRetry ==
    /\ pc = "ready"
    /\ IdleSave
    /\ IdleCleanup
    /\ pack_path \in Roots
    /\ photo = NoRecord
    /\ target = <<>>
    /\ \E h \in CopyDigests, f \in CopyFormats :
         LET tgt == build_content_path(pack_path, h, f)
         IN  /\ sources = {SourceFile("x", h)}
             /\ \/ /\ archive = {}
                   /\ dirs \in DirChains(Parent(tgt))
                \/ /\ archive = {[path |-> tgt, bytes |-> h]}
                   /\ dirs = Ancestors(Parent(tgt))
             /\ writers = [w \in Writers |->
                             IF w = "w1" THEN Calling(<<"photos", "x">>, tgt) ELSE IdleWriter]
    /\ IdleConfidence
    /\ IdleMatch
    /\ IdleElect
    /\ IdleSelect

\* the next save calls copy_photo_to_pack for the photo again
Retry ==
    /\ writers["w1"].pc = "done"
    /\ writers["w2"].pc = "idle"
    /\ writers' = [writers EXCEPT !["w2"] = Calling(writers["w1"].source, writers["w1"].target)]
    /\ UNCHANGED <<archive, dirs>>
    /\ CopyFrame

NextRetry == NextCopy \/ Retry

SpecRetry == InitRetry /\ [][NextRetry]_vars

(***************************************************************************)
(* cleanup_pack_files, one step per call on the manifest store or the file *)
(* system; each of these calls can fail.  The function is run Passes times *)
(* in a row with the same desired set.                                     *)
(***************************************************************************)
\* mutant: the test on the desired set is inverted
RECURSIVE next_stale_desired(_, _, _)
next_stale_desired(entries, i, wanted) ==
    IF i > Len(entries) \/ entries[i].sha256 \in wanted
    THEN i
    ELSE next_stale_desired(entries, i + 1, wanted)

\* for (sha256, format_str) in &entries { if !desired_hashes.contains(sha256) ...
\* the index of the next entry the loop body acts on, from i on
RECURSIVE next_stale(_, _, _)
next_stale(entries, i, wanted) ==
    IF i > Len(entries) \/ entries[i].sha256 \notin wanted
    THEN i
    ELSE next_stale(entries, i + 1, wanted)

\* the loop goes on with entry j, or the function returns `removed`
Continue(c, j) ==
    IF j > Len(c.entries)
    THEN [c EXCEPT !.pc = "done", !.i = j, !.returned = Some(c.removed)]
    ELSE [c EXCEPT !.pc = "file", !.i = j]

CleanupFrame ==
    UNCHANGED <<pc, pack_path, photo, target, dirs, sources, writers, desired,
                confidenceVars, matchVars, electVars, selectVars, saveVars>>

\* let entries = match manifest.list_entries() { Ok(e) => e, Err(_) => return Vec::new() }
ListEntries ==
    /\ cleaner.pc = "list"
    /\ \/ LET c == [cleaner EXCEPT !.entries = list_entries(manifest)]
          IN  cleaner' = Continue(c, next_stale(c.entries, 1, desired))
       \/ cleaner' = [cleaner EXCEPT !.pc = "done", !.returned = Some(<<>>),
                                      !.failed = @ \cup {"list_entries"}]
    /\ UNCHANGED <<archive, manifest>>
    /\ CleanupFrame

\* mutant: a file that cannot be deleted ends the pass
RemoveFile_abort ==
    /\ cleaner.pc = "file"
    /\ LET entry == cleaner.entries[cleaner.i]
           path == file_path(pack_path, entry.sha256, entry.format)
       IN  \/ /\ exists(path)
              /\ archive' = {file \in archive : file.path # path}
              /\ cleaner' = [cleaner EXCEPT !.pc = "row", !.removed = Append(@, path)]
           \/ /\ UNCHANGED archive
              /\ cleaner' = [cleaner EXCEPT !.pc = "done", !.returned = Some(cleaner.removed),
                                             !.failed = @ \cup {"remove_file"}]
    /\ UNCHANGED manifest
    /\ CleanupFrame

\* mutant: the prefix directory is removed with all it holds
RemoveFile_dir ==
    /\ cleaner.pc = "file"
    /\ LET entry == cleaner.entries[cleaner.i]
           path == file_path(pack_path, entry.sha256, entry.format)
       IN  \/ /\ exists(path)
              /\ archive' = {file \in archive : Parent(file.path) # Parent(path)}
              /\ cleaner' = [cleaner EXCEPT !.pc = "row", !.removed = Append(@, path)]
           \/ /\ UNCHANGED archive
              /\ cleaner' = [cleaner EXCEPT !.pc = "row", !.failed = @ \cup {"remove_file"}]
    /\ UNCHANGED manifest
    /\ CleanupFrame

\* if fs::remove_file(&file_path).is_ok() { removed.push(file_path); }
RemoveFile ==
    /\ cleaner.pc = "file"
    /\ LET entry == cleaner.entries[cleaner.i]
           path == file_path(pack_path, entry.sha256, entry.format)
       IN  \/ /\ exists(path)
              /\ archive' = {file \in archive : file.path # path}
              /\ cleaner' = [cleaner EXCEPT !.pc = "row", !.removed = Append(@, path)]
           \/ /\ UNCHANGED archive
              /\ cleaner' = [cleaner EXCEPT !.pc = "row", !.failed = @ \cup {"remove_file"}]
    /\ UNCHANGED manifest
    /\ CleanupFrame

\* mutant: the row is removed only when the file was deleted
RemoveRow_if_deleted ==
    /\ cleaner.pc = "row"
    /\ LET entry == cleaner.entries[cleaner.i]
           path == file_path(pack_path, entry.sha256, entry.format)
           j == next_stale(cleaner.entries, cleaner.i + 1, desired)
       IN  /\ manifest' = IF \E k \in 1 .. Len(cleaner.removed) : cleaner.removed[k] = path
                          THEN remove(manifest, entry.sha256) ELSE manifest
           /\ cleaner' = Continue(cleaner, j)
    /\ UNCHANGED archive
    /\ CleanupFrame

\* let _ = manifest.remove(sha256);
RemoveRow ==
    /\ cleaner.pc = "row"
    /\ LET entry == cleaner.entries[cleaner.i]
           j == next_stale(cleaner.entries, cleaner.i + 1, desired)
       IN  \/ /\ manifest' = remove(manifest, entry.sha256)
              /\ cleaner' = Continue(cleaner, j)
           \/ /\ UNCHANGED manifest
              /\ cleaner' = Continue([cleaner EXCEPT !.failed = @ \cup {"remove"}], j)
    /\ UNCHANGED archive
    /\ CleanupFrame

\* what a finished pass is remembered by
Summary(c) ==
    [returned |-> c.returned.val, failed |-> c.failed,
     archive0 |-> c.archive0, manifest0 |-> c.manifest0]
\* a call of cleanup_pack_files on the present archive and manifest
Called(pass, before) ==
    [pc |-> "list", pass |-> pass, entries |-> <<>>, i |-> 0, removed |-> <<>>,
     returned |-> None, failed |-> {}, archive0 |-> archive, manifest0 |-> manifest,
     earlier |-> before]

\* the caller runs the function again, nothing having changed in between
RunAgain ==
    /\ cleaner.pc = "done"
    /\ cleaner.pass < Passes
    /\ cleaner' = Called(cleaner.pass + 1, Append(cleaner.earlier, Summary(cleaner)))
    /\ UNCHANGED <<archive, manifest>>
    /\ CleanupFrame

NextCleanup ==
    \/ ListEntries
    \/ RemoveFile
    \/ RemoveRow
    \/ RunAgain

\* every manifest of up to MaxEntries rows, every set of stored files (rows
\* without a file and files without a row included), every desired set
InitCleanup ==
    /\ pc = "ready"
    /\ IdleSave
    /\ pack_path \in Roots
    /\ photo = NoRecord
    /\ target = <<>>
    /\ archive \in SUBSET {StoredFile(pack_path, h) : h \in CleanupDigests}
    /\ dirs = DirsOf(archive)
    /\ sources = {}
    /\ writers = [w \in Writers |-> IdleWriter]
    /\ \E n \in 0 .. MaxEntries : manifest \in Manifests(n)
    /\ desired \in SUBSET CleanupDigests
    /\ cleaner = Called(1, <<>>)
    /\ IdleConfidence
    /\ IdleMatch
    /\ IdleElect
    /\ IdleSelect

SpecCleanup == InitCleanup /\ [][NextCleanup]_vars

(***************************************************************************)
(* cleanup_pack_files on an archive that holds one saved photo: the file   *)
(* copy_photo_to_pack wrote at build_content_path(root, H, F) and the row  *)
(* (H, F.as_str()) the save inserted, for every format F                   *)
(***************************************************************************)
Saved(h, f) == [sha256 |-> h, format |-> f]
InitReclaim ==
    /\ pc = "ready"
    /\ IdleSave
    /\ pack_path \in Roots
    /\ photo = NoRecord
    /\ target = <<>>
    /\ \E h \in CleanupDigests, f \in PhotoFormat :
            /\ archive = {[path |-> build_content_path(pack_path, h, f), bytes |-> h]}
            /\ manifest = insert(<<>>, h, as_str(f))
            /\ selected = <<Saved(h, f)>>
    /\ all_photos = <<>>
    /\ groups = <<>>
    /\ dirs = DirsOf(archive)
    /\ sources = {}
    /\ writers = [w \in Writers |-> IdleWriter]
    /\ desired \in SUBSET Hashes(manifest)
    /\ cleaner = Called(1, <<>>)
    /\ IdleConfidence
    /\ IdleMatch
    /\ IdleElect

SpecReclaim == InitReclaim /\ [][NextCleanup]_vars

(***************************************************************************)
(* The pipeline end to end (its driver is outside the tree): fingerprints  *)
(* for the formats that support them, groups, export set, then the save    *)
(* pass: copy_photo_to_pack and a manifest row per export photo, and       *)
(* cleanup_pack_files with the export set's hashes as the desired set.     *)
(***************************************************************************)
\* perceptual fingerprints are computed only where the format supports it,
\* and attached together when the image could be decoded
hash_photo(p) ==
    IF supports_perceptual_hash(p.format)
    THEN LET hashes == compute_perceptual_hashes(file_at(sources, p.path))
         IN  IF hashes.some
             THEN [p EXCEPT !.phash = Some(hashes.val.ahash), !.dhash = Some(hashes.val.dhash)]
             ELSE p
    ELSE p

VaultHash ==
    /\ pc = "ready"
    /\ all_photos' = [i \in 1 .. Len(all_photos) |-> hash_photo(all_photos[i])]
    /\ pc' = "hashed"
    /\ UNCHANGED <<groups, selected, confidenceVars, matchVars, electVars, packVars, copyVars, cleanupVars, saveVars>>

VaultGroup ==
    /\ pc = "hashed"
    /\ groups' = build(all_photos)
    /\ pc' = "grouped"
    /\ UNCHANGED <<all_photos, selected, confidenceVars, matchVars, electVars, packVars, copyVars, cleanupVars, saveVars>>

VaultSelect ==
    /\ pc = "grouped"
    /\ selected' = select_photos_to_export(all_photos, groups)
    /\ pc' = "selected"
    /\ UNCHANGED <<all_photos, groups, confidenceVars, matchVars, electVars, packVars, copyVars, cleanupVars, saveVars>>

\* a source file disappears between the scan and the save
SourceLost ==
    /\ pc = "selected"
    /\ Cardinality(sources) = Len(all_photos)
    /\ \E file \in sources : sources' = sources \ {file}
    /\ UNCHANGED <<pc, pack_path, archive, photo, target, dirs, writers,
                   confidenceVars, matchVars, electVars, selectVars, cleanupVars, saveVars>>

\* the save pass calls copy_photo_to_pack for the next export photo
VaultBeginCopy ==
    /\ pc \in {"selected", "copying"}
    /\ ~saver.busy
    /\ saver.k < Len(selected)
    /\ LET p == selected[saver.k + 1]
       IN  writers' = [writers EXCEPT !["w1"] =
                Calling(p.path, build_content_path(pack_path, p.sha256, p.format))]
    /\ saver' = [saver EXCEPT !.k = @ + 1, !.busy = TRUE]
    /\ pc' = "copying"
    /\ UNCHANGED <<pack_path, archive, photo, target, dirs, sources,
                   confidenceVars, matchVars, electVars, selectVars, cleanupVars>>

\* the call returned: a copied or skipped photo gets its manifest row, a
\* failed copy is counted and the pass goes on; a manifest that cannot be
\* written ends the pass
VaultEndCopy ==
    /\ pc = "copying"
    /\ saver.busy
    /\ writers["w1"].pc = "done"
    /\ LET p == selected[saver.k]
           r == writers["w1"].result
       IN  /\ saver' = [saver EXCEPT !.busy = FALSE, !.results = Append(@, r)]
           /\ \/ /\ manifest' = IF r.status = "ok"
                                  THEN insert(manifest, p.sha256, as_str(p.format))
                                  ELSE manifest
                 /\ UNCHANGED pc
              \/ /\ r.status = "ok"
                 /\ UNCHANGED manifest
                 /\ pc' = "failed"
    /\ writers' = [writers EXCEPT !["w1"] = IdleWriter]
    /\ UNCHANGED <<pack_path, archive, photo, target, dirs, sources, desired, cleaner,
                   confidenceVars, matchVars, electVars, selectVars>>

\* every export photo was handled: cleanup_pack_files is called with the
\* hashes of the export set
VaultBeginCleanup ==
    /\ pc \in {"selected", "copying"}
    /\ ~saver.busy
    /\ saver.k = Len(selected)
    /\ desired' = {selected[i].sha256 : i \in 1 .. Len(selected)}
    /\ cleaner' = Called(1, <<>>)
    /\ pc' = "cleaning"
    /\ UNCHANGED <<manifest, confidenceVars, matchVars, electVars, selectVars, packVars, copyVars, saveVars>>

NextVault ==
    \/ VaultHash
    \/ VaultGroup
    \/ VaultSelect
    \/ SourceLost
    \/ VaultBeginCopy
    \/ CopyPhotoToPack("w1")
    \/ VaultEndCopy
    \/ VaultBeginCleanup
    \/ ListEntries
    \/ RemoveFile
    \/ RemoveRow

\* two scanned photos of any contents; the archive is empty, or holds the
\* files and rows of earlier saves
InitVault ==
    /\ pc = "ready"
    /\ pack_path \in Roots
    /\ photo = NoRecord
    /\ target = <<>>
    /\ \E hx, hy \in CleanupDigests, t \in ElectMtimes :
         \E picture \in [{hx, hy} -> {0, 6}] :
            /\ \A h \in {hx, hy} : picture[h] \in Pictures(h)
            /\ all_photos = <<Scanned(1, hx, t), Scanned(2, hy, 1000)>>
            /\ sources = {OnDisk(1, hx, picture[hx]), OnDisk(2, hy, picture[hy])}
    /\ groups = <<>>
    /\ selected = <<>>
    /\ \E n \in 0 .. MaxEntries : manifest \in Manifests(n)
    /\ archive = {StoredFile(pack_path, h) : h \in Hashes(manifest)}
    /\ dirs = DirsOf(archive)
    /\ writers = [w \in Writers |-> IdleWriter]
    /\ desired = {}
    /\ cleaner = IdleCleaner
    /\ saver = [IdleSaver EXCEPT !.archive0 = archive]
    /\ IdleConfidence
    /\ IdleMatch
    /\ IdleElect

SpecVault == InitVault /\ [][NextVault]_vars

(***************************************************************************)
(* export.rs: the HEIC export.  The export directory is the variable       *)
(* archive, export_dir is pack_path; the photos to export are all_photos   *)
(* and saver holds the position of the loop over them and its results.     *)
(***************************************************************************)
Digit(d) == <<"0", "1", "2", "3", "4", "5", "6", "7", "8", "9">>[d + 1]
RECURSIVE decimal(_)
decimal(n) == IF n < 10 THEN <<Digit(n)>> ELSE decimal(n \div 10) \o <<Digit(n % 10)>>
\* format!("{:0w}", n)
RECURSIVE zero_padded(_, _)
zero_padded(digits, width) ==
    IF Len(digits) >= width THEN digits ELSE zero_padded(<<"0">> \o digits, width)

\* Path::file_stem: the file name up to its last dot, the whole name when
\* it has no dot or only a leading one
file_stem(path) ==
    LET name == path[Len(path)]
        dots == {k \in 2 .. Len(name) : name[k] = "."}
    IN  IF dots = {} THEN name
        ELSE SubSeq(name, 1, (CHOOSE k \in dots : \A j \in dots : j <= k) - 1)

build_export_path(export_dir, date, original_path) ==
    LET dir == join(join(join(export_dir, zero_padded(decimal(date.year), 4)),
                         zero_padded(decimal(date.month), 2)),
                    zero_padded(decimal(date.day), 2))
        base_name == file_stem(original_path) \o <<".", "h", "e", "i", "c">>
        target_ == join(dir, base_name)
    IN  IF ~exists(target_) THEN target_ ELSE target_

\* what sips writes for a source file
heic(bytes) == <<"h">> \o bytes

\* the photos of an export: one of two folders, one of two file names, one
\* of two capture dates; the bytes are those of the folder and the name
MaxExports == 2
ExportDates == {[year |-> 2024, month |-> 6, day |-> 15], [year |-> 2024, month |-> 1, day |-> 5]}
ExportNames == {<<"p", ".", "j", "p", "g">>, <<"s", ".", "C", "R", "2">>, <<"p">>}
ExportFolders == {"a", "b"}
ExportPhoto(folder, name, date) ==
    [path |-> <<folder, name>>, date |-> date, bytes |-> <<folder>> \o name]
ExportLists(n) ==
    [1 .. n -> {ExportPhoto(f, name, d) :
                    f \in ExportFolders, name \in ExportNames, d \in ExportDates}]

InitExport ==
    /\ pc = "ready"
    /\ IdleCleanup
    /\ IdleConfidence
    /\ IdleMatch
    /\ IdleElect
    /\ pack_path = <<"export">>
    /\ archive = {}
    /\ photo = NoRecord
    /\ target = <<>>
    /\ \E n \in 1 .. MaxExports : all_photos \in ExportLists(n)
    /\ groups = <<>>
    /\ selected = <<>>
    /\ dirs = {}
    /\ sources = {[path |-> all_photos[i].path, bytes |-> all_photos[i].bytes] :
                        i \in 1 .. Len(all_photos)}
    /\ writers = [w \in Writers |-> IdleWriter]
    /\ saver = [IdleSaver EXCEPT !.k = 1]

ExportFrame ==
    UNCHANGED <<pack_path, photo, all_photos, groups, selected, sources, writers,
                confidenceVars, matchVars, electVars, cleanupVars>>

\* the target of the next photo is computed
BuildExportPath ==
    /\ pc = "ready"
    /\ saver.k <= Len(all_photos)
    /\ target' = build_export_path(pack_path, all_photos[saver.k].date, all_photos[saver.k].path)
    /\ pc' = "export"
    /\ UNCHANGED <<archive, dirs, saver>>
    /\ ExportFrame

\* export_photo_to_heic: skipped when the target exists, else converted;
\* the conversion creates the target's directories and may fail
ExportPhotoToHeic ==
    /\ pc = "export"
    /\ LET source == all_photos[saver.k]
           done(r) == saver' = [saver EXCEPT !.k = @ + 1,
                                            !.results = Append(@, [target |-> target, result |-> r])]
       IN  \/ /\ exists(target)
              /\ done(Ok(FALSE))
              /\ UNCHANGED <<archive, dirs>>
           \/ /\ ~exists(target)
              /\ dirs' = dirs \cup Ancestors(Parent(target))
              /\ \/ /\ archive' = write(archive, target, heic(source.bytes))
                    /\ done(Ok(TRUE))
                 \/ /\ archive' = archive
                    /\ done(Err("ConversionFailed"))
    /\ pc' = IF saver.k = Len(all_photos) THEN "done" ELSE "ready"
    /\ UNCHANGED target
    /\ ExportFrame

NextExport == BuildExportPath \/ ExportPhotoToHeic

SpecExport == InitExport /\ [][NextExport]_vars

(***************************************************************************)
(* scanner/mod.rs, scanner/formats.rs and the hashing step: the files of a *)
(* source directory are scanned, hashed and grouped                        *)
(***************************************************************************)
format_from_extension(ext) ==
    CASE ext \in {"jpg", "jpeg"} -> Some("Jpeg")
      [] ext = "png" -> Some("Png")
      [] ext \in {"tif", "tiff"} -> Some("Tiff")
      [] ext = "webp" -> Some("Webp")
      [] ext \in {"heic", "heif"} -> Some("Heic")
      [] ext = "cr2" -> Some("Cr2")
      [] ext = "cr3" -> Some("Cr3")
      [] ext = "nef" -> Some("Nef")
      [] ext = "arw" -> Some("Arw")
      [] ext = "orf" -> Some("Orf")
      [] ext = "raf" -> Some("Raf")
      [] ext = "rw2" -> Some("Rw2")
      [] ext = "dng" -> Some("Dng")
      [] OTHER -> None

\* the files of the directory: up to MaxFiles names, each with one of four
\* extensions and one of three contents, the third one not an image
MaxFiles == 2
FileNames == <<"x", "y", "z", "w">>
FileExtensions == {"jpg", "png", "cr2", "txt"}
FileContents == {[bytes |-> <<"a", "3", "d">>, image |-> 0],
                 [bytes |-> <<"a", "3", "e">>, image |-> 3],
                 [bytes |-> <<"a", "3", "f">>, image |-> Corrupt]}
Directories(n) ==
    {{[path |-> <<"photos", FileNames[i]>>, ext |-> es[i],
       bytes |-> cs[i].bytes, image |-> cs[i].image] : i \in 1 .. n} :
        es \in [1 .. n -> FileExtensions], cs \in [1 .. n -> FileContents]}

\* scan_directory: the files with a supported extension, in walking order
RECURSIVE scan_directory(_, _, _)
scan_directory(files, k, found) ==
    IF k > Len(FileNames) THEN found
    ELSE LET here == {file \in files : file.path = <<"photos", FileNames[k]>>}
             format == IF here = {} THEN None
                       ELSE format_from_extension((CHOOSE file \in here : TRUE).ext)
         IN  IF ~format.some THEN scan_directory(files, k + 1, found)
             ELSE scan_directory(files, k + 1,
                    Append(found, [path |-> <<"photos", FileNames[k]>>, size |-> 5,
                                   format |-> format.val, mtime |-> 1000]))

\* the catalog record of a scanned file: the content hash is that of its bytes
catalog(files, scanned) ==
    [i \in 1 .. Len(scanned) |->
        [id |-> i, path |-> scanned[i].path, sha256 |-> file_at(files, scanned[i].path).bytes,
         format |-> scanned[i].format, size |-> scanned[i].size, mtime |-> scanned[i].mtime,
         phash |-> None, dhash |-> None]]

InitHash ==
    /\ pc = "ready"
    /\ IdleSave
    /\ IdleCleanup
    /\ IdleConfidence
    /\ IdleMatch
    /\ IdleElect
    /\ IdleSelect
    /\ IdlePack
    /\ dirs = {}
    /\ \E n \in 1 .. MaxFiles : sources \in Directories(n)
    /\ writers = [w \in Writers |-> IdleWriter]

ScanDirectory ==
    /\ pc = "ready"
    /\ all_photos' = catalog(sources, scan_directory(sources, 1, <<>>))
    /\ pc' = "scanned"
    /\ UNCHANGED <<groups, selected, confidenceVars, matchVars, electVars, packVars, copyVars, cleanupVars, saveVars>>

HashPhotos ==
    /\ pc = "scanned"
    /\ all_photos' = [i \in 1 .. Len(all_photos) |-> hash_photo(all_photos[i])]
    /\ pc' = "hashed"
    /\ UNCHANGED <<groups, selected, confidenceVars, matchVars, electVars, packVars, copyVars, cleanupVars, saveVars>>

GroupPhotos ==
    /\ pc = "hashed"
    /\ groups' = build(all_photos)
    /\ pc' = "done"
    /\ UNCHANGED <<all_photos, selected, confidenceVars, matchVars, electVars, packVars, copyVars, cleanupVars, saveVars>>

NextHash == ScanDirectory \/ HashPhotos \/ GroupPhotos

SpecHash == InitHash /\ [][NextHash]_vars

(***************************************************************************)
(* Claims on the confidence mapping and the matcher                        *)
(***************************************************************************)
\* None ranks below every confidence
rank(o) == IF o.some THEN o.val ELSE -1

DistA == hamming_distance(pa.phash.val, pb.phash.val)
DistD == hamming_distance(pa.dhash.val, pb.dhash.val)
Comparable ==
    /\ pc = "done"
    /\ pa.sha256 # pb.sha256
    /\ has_fingerprints(pa)
    /\ has_fingerprints(pb)

\* C1: dual-hash consensus. For two photos with different content hashes and
\* both fingerprints present, match returns Some only if the average-hash
\* distance and the difference-hash distance are both <= 5, the confidence
\* returned is then the lower of the two per-channel confidences, and a
\* distance >= 6 on either channel gives None.
C1_DualHashConsensus ==
    Comparable =>
        LET ca == confidence_from_hamming(DistA)
            cd == confidence_from_hamming(DistD)
        IN  /\ outcome.some =>
                /\ DistA <= 5 /\ DistD <= 5
                /\ ca.some /\ cd.some
                /\ outcome.val \in {ca.val, cd.val}
                /\ outcome.val <= ca.val /\ outcome.val <= cd.val
            /\ (DistA >= 6 \/ DistD >= 6) => ~outcome.some

\* the example of the claim: 0 on one channel, 6 on the other, no match
C1_Witness ==
    /\ Comparable
    /\ DistA = 0
    /\ DistD = 6
    /\ ~outcome.some

\* C2: confidence_from_hamming maps 0..2 to NearCertain, 3 to High, 4..5 to
\* Probable and every distance from 6 to 64 to None; no smaller distance gets
\* a lower result than a larger one; Low and Certain are never returned.
C2_ConfidenceMapping ==
    pc = "done" =>
        /\ distance \in 0 .. 2 => confidence = Some(NearCertain)
        /\ distance = 3 => confidence = Some(High)
        /\ distance \in 4 .. 5 => confidence = Some(Probable)
        /\ distance >= 6 => ~confidence.some
        /\ \A e \in 0 .. distance :
              rank(confidence_from_hamming(e)) >= rank(confidence)
        /\ confidence.some => confidence.val \notin {Low, Certain}

\* the last distance that still matches has been mapped
C2_Witness ==
    /\ pc = "done"
    /\ distance = 5
    /\ confidence = Some(Probable)

\* C3: two photos with equal content hashes match with Certain, whatever
\* their fingerprints are (absent, or present and far apart).
C3_EqualContentIsCertain ==
    (pc = "done" /\ pa.sha256 = pb.sha256) =>
        (outcome.some /\ outcome.val = Certain)

\* equal content, fingerprints present and 64 bits apart on both channels
C3_Witness ==
    /\ pc = "done"
    /\ pa.sha256 = pb.sha256
    /\ has_fingerprints(pa)
    /\ has_fingerprints(pb)
    /\ DistA = HashBits
    /\ DistD = HashBits
    /\ outcome.some
    /\ outcome.val = Certain

\* C4: two photos with different content hashes, one of which has no
\* fingerprints, do not match, whatever the format and the fingerprints of
\* the other one.
C4_MissingFingerprintsNoMatch ==
    (/\ pc = "done"
     /\ pa.sha256 # pb.sha256
     /\ (~has_fingerprints(pa) \/ ~has_fingerprints(pb))) => ~outcome.some

\* a RAW photo without fingerprints against a JPEG whose fingerprints are 0
C4_Witness ==
    /\ pc = "done"
    /\ pa.sha256 # pb.sha256
    /\ pa.format = "Cr2"
    /\ ~has_fingerprints(pa)
    /\ has_fingerprints(pb)
    /\ pb.phash.val = {}
    /\ pb.dhash.val = {}
    /\ ~outcome.some

(***************************************************************************)
(* Claims on the election                                                  *)
(***************************************************************************)
MemberSet == {members[i] : i \in 1 .. Len(members)}

\* every reordering of a member list
Reorderings(ms) ==
    {[i \in 1 .. Len(ms) |-> ms[f[i]]] : f \in Permutations(1 .. Len(ms))}

\* C5: the elected member is minimal for (tier ascending, size descending,
\* mtime ascending): no member has a lower tier, none of the winning tier is
\* larger, none of the same tier and size is older; so a RAW member is never
\* beaten by a JPEG one.
C5_ElectedIsMinimal ==
    (pc = "done" /\ elected.status = "ok") =>
        LET w == elected.photo
        IN  /\ w \in MemberSet
            /\ \A m \in MemberSet :
                  /\ quality_tier(m.format) >= quality_tier(w.format)
                  /\ quality_tier(m.format) = quality_tier(w.format)
                        => m.size <= w.size
                  /\ (quality_tier(m.format) = quality_tier(w.format)
                        /\ m.size = w.size) => m.mtime >= w.mtime
            /\ (\E m \in MemberSet : m.format \in RawFormats)
                  => w.format \in RawFormats

\* a small recent RAW file wins against a larger and older JPEG, and the
\* larger of two RAW files wins
C5_Witness ==
    /\ pc = "done"
    /\ elected.status = "ok"
    /\ elected.photo.format = "Cr2"
    /\ elected.photo.size = 5
    /\ elected.photo.mtime = 2000
    /\ \E m \in MemberSet : m.format = "Jpeg" /\ m.size = 20 /\ m.mtime = 1000
    /\ \E m \in MemberSet : m.format = "Cr2" /\ m.size = 3

\* C6: the elected id does not depend on the order of the members: every
\* reordering of the list elects the member with the same id.
C6_ElectOrderIndependent ==
    (pc = "done" /\ elected.status = "ok") =>
        \A r \in Reorderings(members) :
            elect_source_of_truth(r).photo.id = elected.photo.id

\* C7: electing from an empty list aborts on the assertion; no photo and no
\* error value comes back.
C7_EmptyGroupPanics ==
    /\ (pc # "ready" /\ Len(members) = 0) =>
          /\ pc = "panicked"
          /\ elected = Panic("cannot elect from empty group")
    /\ pc = "panicked" => Len(members) = 0

\* the call on the empty list has been made
C7_Witness ==
    /\ pc = "panicked"
    /\ members = <<>>
    /\ elected.status = "panic"

(***************************************************************************)
(* Claims on the export set and the content paths                          *)
(***************************************************************************)
CatalogSet == {all_photos[i] : i \in 1 .. Len(all_photos)}
SelectedSet == {selected[i] : i \in 1 .. Len(selected)}
GroupIndexes == 1 .. Len(groups)
InGroup(p, i) == p.id \in Ids(groups[i].members)
Grouped(p) == \E i \in GroupIndexes : InGroup(p, i)

\* no photo is in two groups and every source of truth is a member of its group
WellFormedGroups ==
    /\ \A i, j \in GroupIndexes :
          i # j => Ids(groups[i].members) \cap Ids(groups[j].members) = {}
    /\ \A i \in GroupIndexes :
          groups[i].source_of_truth_id \in Ids(groups[i].members)

\* a photo is kept when it is the source of truth of each group it is in
SourceOfTruthOfOwnGroups(p) ==
    \A i \in GroupIndexes : InGroup(p, i) => groups[i].source_of_truth_id = p.id

\* C8 as stated: the photos returned are exactly those that are in no group
\* or are the source of truth of the group they are a member of; a member
\* that is not its group's source of truth is never returned, even when its
\* id is the source-of-truth id of another group.
C8_PerGroupSelection ==
    pc = "done" =>
        \A p \in CatalogSet : p \in SelectedSet <=> SourceOfTruthOfOwnGroups(p)

\* C8 amended: the photos returned are exactly those of all_photos, in their
\* order, whose id is a member id of no group or the source-of-truth id of
\* some group, whichever group that is; when the groups are disjoint and each
\* source of truth is a member of its group these are the ungrouped photos
\* and the source of truth of each group.
C8_SelectionByIdSets ==
    pc = "done" =>
        /\ SelectedSet \subseteq CatalogSet
        /\ \A i, j \in 1 .. Len(selected) : i < j => selected[i].id < selected[j].id
        /\ \A p \in CatalogSet :
              p \in SelectedSet <=>
                  \/ ~Grouped(p)
                  \/ \E i \in GroupIndexes : groups[i].source_of_truth_id = p.id
        /\ WellFormedGroups =>
              \A p \in CatalogSet : p \in SelectedSet <=> SourceOfTruthOfOwnGroups(p)

\* group {1, 2, 3} with source of truth 2 and the ungrouped 4 give 2 and 4
C8_Witness ==
    /\ pc = "done"
    /\ 1 .. 4 \subseteq Ids(all_photos)
    /\ Len(groups) = 1
    /\ Ids(groups[1].members) = {1, 2, 3}
    /\ groups[1].source_of_truth_id = 2
    /\ Ids(selected) \cap (1 .. 4) = {2, 4}

Last(path) == path[Len(path)]

\* C9: build_content_path(root, hash, format) is root / hash[0:2] /
\* hash.extension(format), whatever the archive holds; for the same hash two
\* formats give paths in the same prefix directory whose file names differ
\* in the extension only.
C9_ContentPathIsPure ==
    pc = "done" =>
        LET sha == photo.sha256
        IN  /\ target = pack_path \o <<SubSeq(sha, 1, 2),
                                       sha \o <<".">> \o extension(photo.format)>>
            /\ \A g \in PhotoFormat :
                  LET other == build_content_path(pack_path, sha, g)
                  IN  /\ Parent(other) = Parent(target)
                      /\ SubSeq(Last(other), 1, Len(sha) + 1)
                            = SubSeq(Last(target), 1, Len(sha) + 1)
                      /\ other = target <=> extension(g) = extension(photo.format)

\* the path of a JPEG whose hash starts with a3, built while the archive
\* already holds a file at that very path
C9_Witness ==
    /\ pc = "done"
    /\ pack_path = <<"pack">>
    /\ photo.format = "Jpeg"
    /\ photo.sha256[1] = "a"
    /\ photo.sha256[2] = "3"
    /\ exists(target)
    /\ Len(target) = 3
    /\ target[2] = <<"a", "3">>
    /\ target[3] = photo.sha256 \o <<".", "j", "p", "g">>

\* C10: every record with the same content hash as the one whose path was
\* built resolves to that same path under the same root, whatever its own
\* path and recorded format are.
C10_SameContentSamePath ==
    pc = "done" =>
        \A q \in PackPhotos :
            q.sha256 = photo.sha256
                => build_content_path(pack_path, q.sha256, q.format) = target

(***************************************************************************)
(* Claims on copy_photo_to_pack                                            *)
(***************************************************************************)
Done(w) == writers[w].pc = "done"
Bytes(files, path) == file_at(files, path).bytes
SourceBytes(w) == Bytes(sources, writers[w].source)

\* a step of the call that finds its target: Ok(false), nothing on disk changes
Skips(w) ==
    (writers[w].pc = "exists" /\ exists(writers[w].target) /\ writers'[w] # writers[w])
        => /\ writers'[w].pc = "done"
           /\ writers'[w].result = Ok(FALSE)
           /\ archive' = archive
           /\ dirs' = dirs
\* a step of the call that finds no target goes on to create the directories
Proceeds(w) ==
    (writers[w].pc = "exists" /\ ~exists(writers[w].target) /\ writers'[w] # writers[w])
        => writers'[w].pc = "mkdir"
\* what a finished call leaves
Copied(w) ==
    /\ Done(w) => writers[w].result.status \in {"ok", "err"}
    /\ (Done(w) /\ writers[w].result = Ok(TRUE)) =>
            /\ Ancestors(Parent(writers[w].target)) \subseteq dirs
            /\ exists(writers[w].target)
            /\ Bytes(archive, writers[w].target) = SourceBytes(w)
    /\ (Done(w) /\ writers[w].result = Ok(FALSE)) => exists(writers[w].target)

\* C11: copy_photo_to_pack on a target that exists returns Ok(false) and
\* leaves the target as it was, without overwriting it; on a target that
\* does not exist it goes on to create the parent directories and to copy,
\* and when it returns Ok(true) the parent directories exist and the
\* target holds the source's bytes.
C11_CopyIfAbsent ==
    /\ [][\A w \in Writers : Skips(w) /\ Proceeds(w)]_vars
    /\ [](\A w \in Writers : Copied(w))

\* the call skipped a target whose bytes are not the source's
C11_Witness ==
    /\ Done("w1")
    /\ writers["w1"].result = Ok(FALSE)
    /\ sources # {}
    /\ Bytes(archive, writers["w1"].target) # SourceBytes("w1")
    /\ Bytes(archive, writers["w1"].target) \in CopyDigests

\* the writers copy the same bytes to the same target
RaceTarget == writers["w1"].target
RaceBytes == SourceBytes("w1")
BothFinished == \A w \in Writers : Done(w) /\ writers[w].result.status = "ok"

\* C12: two writers run copy_photo_to_pack on the target of one content,
\* from sources with identical bytes, their existence checks, directory
\* creations and copies interleaved in any order: once both have returned
\* the target exists and holds exactly those bytes, and at no time does the
\* target hold bytes of any other content (while a copy is under way it
\* holds a prefix of those bytes).
C12_ExistenceCheckGuardsRace ==
    /\ exists(RaceTarget) =>
            Bytes(archive, RaceTarget) \in Partial(RaceBytes) \cup {RaceBytes}
    /\ BothFinished =>
            /\ exists(RaceTarget)
            /\ Bytes(archive, RaceTarget) = RaceBytes

\* both writers found no target and both copied
C12_Witness ==
    /\ \A w \in Writers : Done(w) /\ writers[w].result = Ok(TRUE)
    /\ writers["w1"].source # writers["w2"].source
    /\ Bytes(archive, RaceTarget) = RaceBytes

(***************************************************************************)
(* Claims on cleanup_pack_files                                            *)
(***************************************************************************)
Range(seq) == {seq[i] : i \in 1 .. Len(seq)}
MemberIds(g) == {g.members[k].id : k \in 1 .. Len(g.members)}
PassDone == cleaner.pc = "done"
\* the rows the pass started with, and those of them that are stale
Rows0 == cleaner.manifest0
StaleRows == {Rows0[i] : i \in {k \in 1 .. Len(Rows0) : Rows0[k].sha256 \notin desired}}
PathOf(row) == file_path(pack_path, row.sha256, row.format)
ManifestFailures == {"list_entries", "remove"}

\* C13: after a pass of cleanup_pack_files in which no call failed, for
\* every manifest entry whose hash is not desired the file at
\* root/hash[0:2]/hash.<ext> is gone, the row is gone and the path is in the
\* returned list; every remaining row has a desired hash; the returned list
\* holds exactly one path per stale entry.
C13_CleanupRemovesStale ==
    (PassDone /\ cleaner.failed = {}) =>
        /\ \A row \in StaleRows :
                /\ ~exists(PathOf(row))
                /\ row.sha256 \notin Hashes(manifest)
                /\ PathOf(row) \in Range(cleaner.returned.val)
        /\ Hashes(manifest) \subseteq desired
        /\ Range(cleaner.returned.val) = {PathOf(row) : row \in StaleRows}
        /\ Len(cleaner.returned.val) = Cardinality(StaleRows)

\* a pass without failure that removed a stale entry and kept a desired one
C13_Witness ==
    /\ PassDone
    /\ cleaner.pass = 1
    /\ cleaner.failed = {}
    /\ Len(cleaner.returned.val) >= 1
    /\ manifest # <<>>
    /\ \E row \in Range(manifest) : exists(PathOf(row))

SecondPassDidNothing ==
    /\ cleaner.returned.val = <<>>
    /\ archive = cleaner.archive0
    /\ manifest = cleaner.manifest0

C15_RowAndFileTogether ==
    \A row \in StaleRows :
        (\E file \in cleaner.archive0 : file.path = PathOf(row)) =>
            (exists(PathOf(row)) <=> row.sha256 \in Hashes(manifest))

\* C16 (as stated): a pass during which the manifest store failed returns
\* something else than the empty list of a pass that found nothing to remove.
C16_ManifestFailureReported ==
    (PassDone /\ cleaner.failed \cap ManifestFailures # {}) =>
        cleaner.returned.val # <<>>

\* the paths of the stale rows the pass started with, in the order listed
StalePaths ==
    LET stale(row) == row.sha256 \notin desired
        rows == SelectSeq(Rows0, stale)
    IN  [k \in 1 .. Len(rows) |-> PathOf(rows[k])]
\* a file the pass deleted
Deleted(path) == (\E file \in cleaner.archive0 : file.path = path) /\ ~exists(path)
SourceMissing(w) == ~\E file \in sources : file.path = writers[w].source

\* C17: a file that cannot be deleted does not end the cleanup pass: the
\* loop runs through every entry, the returned list holds exactly the paths
\* whose deletion succeeded, in order, and the rows of all stale entries are
\* removed (unless the manifest store itself fails).  A copy whose source is
\* missing and whose target is not there returns an error and leaves no
\* file at the target, and the save pass goes on with the other photos.
C17_FailuresArePerFile ==
    /\ (PassDone /\ "list_entries" \notin cleaner.failed) =>
            /\ cleaner.i = Len(cleaner.entries) + 1
            /\ cleaner.returned.val = SelectSeq(StalePaths, Deleted)
            /\ "remove" \notin cleaner.failed =>
                    \A row \in StaleRows : row.sha256 \notin Hashes(manifest)
    /\ \A w \in Writers :
            (Done(w) /\ SourceMissing(w)) =>
                IF exists(writers[w].target)
                THEN writers[w].result = Ok(FALSE)
                ELSE writers[w].result.status = "err"
    /\ pc = "cleaning" => Len(saver.results) = Len(selected)

\* the copy of a photo whose source was lost failed, and in the cleanup the
\* first stale file could not be deleted while a later one was, with its row
C17_Witness ==
    /\ PassDone
    /\ cleaner.failed = {"remove_file"}
    /\ \E k \in 1 .. Len(saver.results) :
            /\ saver.results[k].status = "err"
            /\ ~\E file \in sources : file.path = selected[k].path
            /\ ~exists(build_content_path(pack_path, selected[k].sha256, selected[k].format))
    /\ Len(StalePaths) >= 2
    /\ exists(StalePaths[1])
    /\ Deleted(StalePaths[2])
    /\ cleaner.returned.val = <<StalePaths[2]>>
    /\ manifest = <<>>

(***************************************************************************)
(* Claims on the pipeline end to end                                       *)
(***************************************************************************)
Past(phases) == pc \notin phases
\* the two photos are identical JPEG files at different paths
TwoCopies ==
    /\ all_photos[1].sha256 = all_photos[2].sha256
    /\ all_photos[1].format = "Jpeg"
    /\ all_photos[2].format = "Jpeg"
    /\ all_photos[1].path # all_photos[2].path
TheHash == all_photos[1].sha256
SavedOk ==
    /\ PassDone
    /\ cleaner.failed = {}
    /\ \A k \in 1 .. Len(saver.results) : saver.results[k].status = "ok"

\* C18: two photos with identical bytes (hash H, both JPEG) at different
\* paths make exactly one group, of exactly those two members, with
\* confidence Certain; the export set holds exactly one of them; saved to an
\* empty archive, the archive holds exactly one file, root/H[0:2]/H.jpg.
C18_TwoCopiesOneFile ==
    TwoCopies =>
        /\ Past({"ready", "hashed"}) =>
                /\ Len(groups) = 1
                /\ Len(groups[1].members) = 2
                /\ {groups[1].members[1].id, groups[1].members[2].id} = {1, 2}
                /\ groups[1].confidence = Certain
        /\ Past({"ready", "hashed", "grouped"}) =>
                /\ Len(selected) = 1
                /\ selected[1].id \in {1, 2}
        /\ (SavedOk /\ saver.archive0 = {}) =>
                archive =
                    {[path |-> pack_path \o <<SubSeq(TheHash, 1, 2),
                                               TheHash \o <<".", "j", "p", "g">> >>,
                      bytes |-> TheHash]}

\* the two copies were saved to an empty archive
C18_Witness ==
    /\ TwoCopies
    /\ SavedOk
    /\ saver.archive0 = {}
    /\ saver.results = <<Ok(TRUE)>>
    /\ Cardinality(archive) = 1
    /\ Hashes(manifest) = {TheHash}

\* a CR2 of 20 MB and a JPEG of 5 MB, different bytes, the same picture
RawAndJpeg(r, j) ==
    /\ all_photos[r].format = "Cr2"
    /\ all_photos[r].size = 20
    /\ all_photos[j].format = "Jpeg"
    /\ all_photos[j].size = 5
    /\ all_photos[r].sha256 # all_photos[j].sha256
    /\ \E fr, fj \in sources :
            /\ fr.path = all_photos[r].path
            /\ fj.path = all_photos[j].path
            /\ fr.image = fj.image

\* C19 (as stated): a CR2 of 20 MB and a JPEG of 5 MB with identical
\* perceptual content and different content hashes end up, once the
\* pipeline has hashed, matched and grouped them, in one group whose
\* confidence is Certain and whose source of truth is the CR2.
C19_RawAndJpegGrouped ==
    \A r, j \in 1 .. Len(all_photos) :
        (pc = "grouped" /\ RawAndJpeg(r, j)) =>
            \E g \in Range(groups) :
                /\ {r, j} \subseteq MemberIds(g)
                /\ g.confidence = Certain
                /\ g.source_of_truth_id = all_photos[r].id

(***************************************************************************)
(* Claims on the GroupBuilder                                              *)
(***************************************************************************)
Indexes == 1 .. Len(all_photos)
Matches(i, j) == i # j /\ match(all_photos[i], all_photos[j]).some
\* the photos a chain of matching pairs links to the photos of S
RECURSIVE Linked(_)
Linked(S) ==
    LET more == S \cup {j \in Indexes : \E i \in S : Matches(i, j)}
    IN  IF more = S THEN S ELSE Linked(more)
Components == {Linked({i}) : i \in Indexes}

\* C20: the groups the GroupBuilder emits are exactly the connected
\* components of two photos or more of the graph of matching pairs: every
\* group has at least 2 members, no photo is in two groups, two photos are
\* in one group if and only if a chain of matching pairs links them, and a
\* photo that matches no other is in no group.
C20_GroupsAreComponents ==
    pc = "done" =>
        /\ \A g \in Range(groups) :
                /\ Len(g.members) >= 2
                /\ Cardinality(MemberIds(g)) = Len(g.members)
        /\ \A g, h \in 1 .. Len(groups) :
                g # h => MemberIds(groups[g]) \cap MemberIds(groups[h]) = {}
        /\ \A i, j \in Indexes :
                i # j => ((\E g \in Range(groups) : {i, j} \subseteq MemberIds(g))
                            <=> j \in Linked({i}))
        /\ \A i \in Indexes :
                (\A j \in Indexes : ~Matches(i, j))
                    => \A g \in Range(groups) : i \notin MemberIds(g)
        /\ {MemberIds(g) : g \in Range(groups)}
                = {c \in Components : Cardinality(c) >= 2}

\* a group whose first and last member do not match each other and are
\* linked through an exact-hash pair and a perceptual pair
C20_Witness ==
    /\ pc = "done"
    /\ \E g \in Range(groups) :
            \E i, j, k \in MemberIds(g) :
                /\ ~Matches(i, k)
                /\ all_photos[i].sha256 = all_photos[j].sha256
                /\ Matches(j, k)
                /\ all_photos[j].sha256 # all_photos[k].sha256

\* the lowest confidence among the matching pairs of the photos of S
WeakestLink(S) ==
    LET links == {match(all_photos[i], all_photos[j]).val :
                    <<i, j>> \in {p \in S \X S : Matches(p[1], p[2])}}
    IN  CHOOSE c \in links : \A d \in links : c <= d

\* the photos of all_photos handed over in another order
Reordered == {[k \in Indexes |-> all_photos[p[k]]] :
                p \in {q \in [Indexes -> Indexes] : \A i \in Indexes : \E k \in Indexes : q[k] = i}}

\* C21: the confidence of a group is the weakest pairwise link inside the
\* group, the lowest confidence among the matching pairs of its members,
\* and the same group gets the same confidence whatever the order in which
\* the photos, and so the edges, reach the union-find.
C21_WeakestPairwiseLink ==
    pc = "done" =>
        \A g \in Range(groups) :
            /\ g.confidence = WeakestLink(MemberIds(g))
            /\ \A other \in Reordered :
                    \A h \in Range(build(other)) :
                        MemberIds(h) = MemberIds(g) => h.confidence = g.confidence

\* what a group list says: who is grouped with whom, and how surely
Grouping(gs) == {[members |-> MemberIds(g), confidence |-> g.confidence] : g \in Range(gs)}

\* C22: on every photo set the bucketed builder (exact matches from the
\* hash index, perceptual comparison only inside the format-compatible
\* pairs of unequal hash) emits the groups of the naive all-pairs builder,
\* the same member sets with the same confidences; two photos of different
\* formats whose fingerprints match are grouped by both.
C22_BucketedIsNaive ==
    pc = "done" =>
        /\ Grouping(groups) = Grouping(build(all_photos))
        /\ \A i, j \in Indexes :
                (/\ all_photos[i].format # all_photos[j].format
                 /\ has_fingerprints(all_photos[i]) /\ has_fingerprints(all_photos[j])
                 /\ Matches(i, j))
                    => /\ \E g \in Range(groups) : {i, j} \subseteq MemberIds(g)
                       /\ \E g \in Range(build(all_photos)) : {i, j} \subseteq MemberIds(g)

\* a JPEG and a PNG of different bytes whose fingerprints match are in one
\* group, together with a RAW file that only the hash index links to them
C22_Witness ==
    /\ pc = "done"
    /\ \E g \in Range(groups) :
            \E i, j, k \in MemberIds(g) :
                /\ all_photos[i].format = "Jpeg" /\ all_photos[j].format = "Png"
                /\ all_photos[i].sha256 # all_photos[j].sha256
                /\ Matches(i, j)
                /\ all_photos[k].format = "Cr2"
                /\ all_photos[k].sha256 = all_photos[j].sha256

\* !x, the bitwise complement of a 64-bit word
complement(x) == U64Bits \ x

\* C23: the Hamming distance of two 64-bit hashes is symmetric, is 0 if
\* and only if the two are equal, is 64 when one is the bitwise complement
\* of the other, and always lies in 0..64.
C23_HammingDistance ==
    pc = "done" =>
        LET a == pa.phash.val
            b == pb.phash.val
        IN  /\ distance = hamming_distance(b, a)
            /\ (distance = 0) <=> (a = b)
            /\ b = complement(a) => distance = 64
            /\ distance \in 0 .. 64

\* a word with some bits set and some clear, and its complement, at
\* distance 64
C23_Witness ==
    /\ pc = "done"
    /\ pa.phash.val \notin {{}, U64Bits}
    /\ pb.phash.val = complement(pa.phash.val)
    /\ distance = 64

\* the file a photo record was scanned from
FileOf(p) == file_at(sources, p.path)

\* C24: in every photo record of the scan/hash pipeline the two perceptual
\* fingerprints are both present or both absent; they are present only for
\* a photo whose format declares perceptual-hash support and whose image
\* decoded; a photo whose image is unreadable keeps both absent, and is
\* still grouped with the photos of the same content hash.
C24_FingerprintsTogether ==
    /\ \A p \in Range(all_photos) :
            /\ p.phash.some <=> p.dhash.some
            /\ p.phash.some => /\ supports_perceptual_hash(p.format)
                               /\ FileOf(p).image # Corrupt
            /\ FileOf(p).image = Corrupt => ~p.phash.some /\ ~p.dhash.some
            /\ pc \in {"hashed", "done"}
                    => (p.phash.some <=> /\ supports_perceptual_hash(p.format)
                                         /\ FileOf(p).image # Corrupt)
    /\ pc = "done" =>
            \A i, j \in Indexes :
                (i # j /\ all_photos[i].sha256 = all_photos[j].sha256)
                    => \E g \in Range(groups) : {i, j} \subseteq MemberIds(g)

\* two JPEG files of the same unreadable bytes: hashed, without
\* fingerprints, and grouped as exact duplicates
C24_Witness ==
    /\ pc = "done"
    /\ Len(all_photos) = 2
    /\ \A p \in Range(all_photos) :
            /\ p.format = "Jpeg"
            /\ FileOf(p).image = Corrupt
            /\ ~p.phash.some
    /\ Len(groups) = 1
    /\ groups[1].confidence = Certain

\* the pass stands between two entries, or has returned
BetweenEntries == cleaner.pc = "file" \/ PassDone

\* C25: a reconciliation pass is all-or-nothing: if it is stopped between
\* two entries, or has gone through the entries with failures, the archive
\* and the manifest are as they were before the pass, or every stale entry
\* is removed; never only a part of them.
C25_PassIsAllOrNothing ==
    BetweenEntries =>
        \/ archive = cleaner.archive0 /\ manifest = cleaner.manifest0
        \/ \A row \in StaleRows :
                ~exists(PathOf(row)) /\ row.sha256 \notin Hashes(manifest)

\* the positions of the export set that hold a member of group i
ExportedOf(i) == {k \in 1 .. Len(selected) : selected[k].id \in Ids(groups[i].members)}

\* C26: when the groups are disjoint and each source of truth is a member
\* of its group, every group whose members are all in all_photos has
\* exactly one photo in the export set, its source of truth: no group is
\* dropped and no group is exported twice.
C26_OnePhotoPerGroup ==
    (pc = "done" /\ WellFormedGroups) =>
        \A i \in GroupIndexes :
            Ids(groups[i].members) \subseteq Ids(all_photos) =>
                /\ Cardinality(ExportedOf(i)) = 1
                /\ \A k \in ExportedOf(i) : selected[k].id = groups[i].source_of_truth_id

\* two disjoint groups, all members in the catalog, and an export set
\* that holds their two sources of truth and nothing else
C26_Witness ==
    /\ pc = "done"
    /\ WellFormedGroups
    /\ Len(groups) = 2
    /\ \A i \in GroupIndexes : Ids(groups[i].members) \subseteq Ids(all_photos)
    /\ Ids(all_photos) = UNION {Ids(groups[i].members) : i \in GroupIndexes}
    /\ Ids(selected) = {groups[i].source_of_truth_id : i \in GroupIndexes}
    /\ Len(selected) = 2

\* the result recorded for the k-th photo of the export
Exported(k) == saver.results[k]

\* C27: two different source photos of the same date and the same file
\* stem get different target paths, the later one a suffixed one, so that
\* both are converted when no conversion fails: the second is not skipped
\* against the file of the first.
C27_CollisionsGetSuffixes ==
    pc = "done" =>
        \A i, j \in Indexes :
            (/\ i < j
             /\ all_photos[i].path # all_photos[j].path
             /\ all_photos[i].date = all_photos[j].date
             /\ file_stem(all_photos[i].path) = file_stem(all_photos[j].path)
             /\ Exported(i).result = Ok(TRUE))
                => /\ Exported(j).target # Exported(i).target
                   /\ Exported(j).result # Ok(FALSE)

\* the rows the pass started with whose hash is desired, and the files of
\* the archive that no row of the manifest stands for
DesiredRows == {row \in Range(Rows0) : row.sha256 \in desired}
Unlisted == {file \in cleaner.archive0 : \A row \in Range(Rows0) : PathOf(row) # file.path}

\* C28: whatever the manifest holds and whichever calls fail, a pass of
\* cleanup_pack_files leaves the row and the archive file of every entry
\* whose hash is desired as they were, deletes no file that has no manifest
\* entry, and creates none.
C28_DesiredContentUntouched ==
    cleaner.pc # "idle" =>
        /\ \A row \in DesiredRows :
                /\ row \in Range(manifest)
                /\ \A file \in cleaner.archive0 : file.path = PathOf(row) => file \in archive
        /\ Unlisted \subseteq archive
        /\ archive \subseteq cleaner.archive0
        /\ \A i, j \in 1 .. Len(manifest) :
                i < j => \E k, l \in 1 .. Len(Rows0) :
                            k < l /\ Rows0[k] = manifest[i] /\ Rows0[l] = manifest[j]

\* a pass that deleted the file of a stale row, next to a desired row with
\* its file and a file without a row in the same prefix directory
C28_Witness ==
    /\ PassDone
    /\ \E row \in StaleRows : Deleted(PathOf(row))
    /\ \E row \in DesiredRows :
            /\ exists(PathOf(row))
            /\ \E stale \in StaleRows : Parent(PathOf(stale)) = Parent(PathOf(row))
    /\ \E file \in Unlisted : file \in archive

NoCallUnderWay == \A w \in Writers : writers[w].pc \in {"idle", "done"}

\* C30: after any sequence of calls of copy_photo_to_pack for a photo of
\* content hash H, failed and interrupted calls and later retries included,
\* a file present at root/H[0:2]/H.<ext> holds exactly the bytes of hash
\* H, so that a call that skips because its target exists skips a correct
\* file.
C30_ExistenceImpliesCorrectness ==
    NoCallUnderWay =>
        /\ exists(RaceTarget) => Bytes(archive, RaceTarget) = RaceBytes
        /\ \A w \in Writers :
                (Done(w) /\ writers[w].result = Ok(FALSE))
                    => Bytes(archive, writers[w].target) = SourceBytes(w)

====
